---- MODULE Spec2Model ----
(***************************************************************************)
(* Model of the zerostyl verifier crate (crates/zerostyl-verifier):        *)
(* verify_proof_nostd and its stages, the Fiat-Shamir Transcript, the     *)
(* VkComponents codec, and the public entry points.                        *)
(*                                                                         *)
(* Scaling.  The Pallas field Fp and the Vesta group EqAffine are replaced *)
(* by the prime field of order FpModulus and the cyclic group of the same  *)
(* order (EqAffine has prime order |Fp|), a point being represented by its *)
(* discrete logarithm.  Encodings keep their real width: 32 bytes, little  *)
(* endian; a compressed point is its x coordinate with the sign of y in    *)
(* the top bit of the last byte.  Blake2b512 is modelled as injective: the *)
(* digest of an input is that input, padded.                               *)
(***************************************************************************)
EXTENDS Integers, Sequences, FiniteSets, TLC

CHALLENGE_PREFIX == 0
POINT_PREFIX == 1
SCALAR_PREFIX == 2

\* Width of one encoded point or scalar (point_size / scalar_size).
point_size == 32
scalar_size == 32

\* Order of the scalar field Fp (scaled down from the 255-bit Pallas prime).
FpModulus == 1009

\* Width of usize on the build target.
UsizeBits == 64

Byte == 0..255

Zeros(n) == [i \in 1..n |-> 0]

Min(a, b) == IF a < b THEN a ELSE b

\* let x = ...; F is the rest of the block, which reads x.
Let(x, F(_)) == F(x)

---------------------------------------------------------------------------
\* Field arithmetic (halo2curves::pasta::Fp).

FpAdd(a, b) == (a + b) % FpModulus
FpSub(a, b) == (a + FpModulus - b) % FpModulus
FpMul(a, b) == (a * b) % FpModulus

RECURSIVE FpPow(_, _)
FpPow(a, e) ==
    IF e = 0 THEN 1
    ELSE IF e % 2 = 0 THEN FpPow(FpMul(a, a), e \div 2)
    ELSE FpMul(a, FpPow(FpMul(a, a), e \div 2))

\* Field::invert: CtOption, none for zero.
invert(a) ==
    IF a = 0 THEN [some |-> FALSE, value |-> 0]
    ELSE [some |-> TRUE, value |-> FpPow(a, FpModulus - 2)]

\* PrimeField::to_repr: 32 bytes, little endian.
to_repr(s) == <<s % 256, s \div 256>> \o Zeros(30)

\* PrimeField::from_repr: none unless the bytes are the canonical encoding
\* of a residue (the modulus is below 2^16, so a canonical encoding has
\* only its two low bytes set).
from_repr(bytes) ==
    IF (\A i \in 3..32 : bytes[i] = 0) /\ bytes[1] + 256 * bytes[2] < FpModulus
    THEN [some |-> TRUE, value |-> bytes[1] + 256 * bytes[2]]
    ELSE [some |-> FALSE, value |-> 0]

\* terms[lo] + ... + terms[hi] modulo the field order (summed by halves to
\* keep the evaluation shallow; the sum is the same in any order).
RECURSIVE SumMod(_, _, _)
SumMod(terms, lo, hi) ==
    IF lo > hi THEN 0
    ELSE IF lo = hi THEN terms[lo] % FpModulus
    ELSE LET mid == (lo + hi) \div 2
         IN  (SumMod(terms, lo, mid) + SumMod(terms, mid + 1, hi)) % FpModulus

\* FromUniformBytes::from_uniform_bytes: the digest read as a little-endian
\* integer, reduced modulo the field order.
from_uniform_bytes(d) ==
    SumMod([i \in 1..Len(d) |-> d[i] * FpPow(256 % FpModulus, i - 1)], 1, Len(d))

---------------------------------------------------------------------------
\* Group arithmetic and encoding (halo2curves::pasta::EqAffine).  A point
\* is its discrete logarithm; 0 is the identity.

PointAdd(p, q) == (p + q) % FpModulus
PointMul(p, s) == (p * s) % FpModulus

\* GroupEncoding::to_bytes: identity is all zero; otherwise x with the sign
\* of y in bit 7 of byte 31.  p and -p share x.
point_to_bytes(p) ==
    IF p = 0 THEN Zeros(32)
    ELSE LET x == Min(p, FpModulus - p)
             ysign == IF p > FpModulus - p THEN 1 ELSE 0
         IN  <<x % 256, x \div 256>> \o Zeros(29) \o <<128 * ysign>>

\* GroupEncoding::from_bytes: none when x is not canonical or not the x
\* coordinate of a curve point.
point_from_bytes(bytes) ==
    LET ysign == bytes[32] \div 128
        tmp == [bytes EXCEPT ![32] = @ % 128]
        x == from_repr(tmp)
    IN  IF ~x.some THEN [some |-> FALSE, value |-> 0]
        ELSE IF x.value = 0
             THEN [some |-> (ysign = 0), value |-> 0]
        ELSE IF x.value <= (FpModulus - 1) \div 2
             THEN [some |-> TRUE,
                   value |-> IF ysign = 0 THEN x.value ELSE FpModulus - x.value]
        ELSE [some |-> FALSE, value |-> 0]

---------------------------------------------------------------------------
\* Transcript { hasher, proof_data, position }.  hasher is the byte string
\* fed to Blake2b512 since it was created or last reset.  ops records the
\* absorb and squeeze calls made on the transcript, each with the bytes it
\* fed to the hasher (for a squeeze: the digest).

\* b"Halo2-Transcript"
TranscriptLabel == <<72, 97, 108, 111, 50, 45, 84, 114, 97, 110, 115, 99, 114, 105, 112, 116>>

Transcript_new(proof_bytes) ==
    [hasher |-> TranscriptLabel, proof_data |-> proof_bytes, position |-> 0,
     ops |-> <<>>]

absorb_point(t, point) ==
    [t EXCEPT !.hasher = @ \o <<POINT_PREFIX>> \o point_to_bytes(point),
              !.ops = Append(@, [op |-> "absorb_point", bytes |-> point_to_bytes(point)])]

absorb_scalar(t, scalar) ==
    [t EXCEPT !.hasher = @ \o <<SCALAR_PREFIX>> \o to_repr(scalar),
              !.ops = Append(@, [op |-> "absorb_scalar", bytes |-> to_repr(scalar)])]

\* read_scalar reporting the data as missing for a point: a variant C11
\* tells apart.
read_scalar_as_point(t) ==
    IF t.position + scalar_size > Len(t.proof_data)
    THEN [ok |-> FALSE, err |-> "Insufficient proof data for point", value |-> 0, t |-> t]
    ELSE Let([t EXCEPT !.position = @ + scalar_size], LAMBDA t1 :
         Let(from_repr(SubSeq(t.proof_data, t.position + 1,
                              t.position + scalar_size)), LAMBDA scalar :
             IF ~scalar.some
             THEN [ok |-> FALSE, err |-> "Invalid scalar encoding", value |-> 0, t |-> t1]
             ELSE [ok |-> TRUE, err |-> "", value |-> scalar.value,
                   t |-> absorb_scalar(t1, scalar.value)]))

\* read_scalar moving the cursor past what is left of a buffer that is too
\* short: a variant C29 tells apart.
read_scalar_skipping(t) ==
    IF t.position + scalar_size > Len(t.proof_data)
    THEN [ok |-> FALSE, err |-> "Insufficient proof data for scalar", value |-> 0,
          t |-> [t EXCEPT !.position = Len(t.proof_data)]]
    ELSE Let([t EXCEPT !.position = @ + scalar_size], LAMBDA t1 :
         Let(from_repr(SubSeq(t.proof_data, t.position + 1,
                              t.position + scalar_size)), LAMBDA scalar :
             IF ~scalar.some
             THEN [ok |-> FALSE, err |-> "Invalid scalar encoding", value |-> 0, t |-> t1]
             ELSE [ok |-> TRUE, err |-> "", value |-> scalar.value,
                   t |-> absorb_scalar(t1, scalar.value)]))

\* read_point asking for one byte more than the point: a variant C13 tells
\* apart.
read_point_one_more(t) ==
    IF t.position + point_size >= Len(t.proof_data)
    THEN [ok |-> FALSE, err |-> "Insufficient proof data for point", value |-> 0, t |-> t]
    ELSE Let([t EXCEPT !.position = @ + point_size], LAMBDA t1 :
         Let(point_from_bytes(SubSeq(t.proof_data, t.position + 1,
                                     t.position + point_size)), LAMBDA point :
             IF ~point.some
             THEN [ok |-> FALSE, err |-> "Invalid point encoding", value |-> 0, t |-> t1]
             ELSE [ok |-> TRUE, err |-> "", value |-> point.value,
                   t |-> absorb_point(t1, point.value)]))

\* Result of a read: ok/err, the value, and the transcript afterwards.
\* r?: an Err ends the function (its value replaced by dflt); otherwise F
\* is the rest of the function.
Try(r, dflt, F(_)) == IF ~r.ok THEN [r EXCEPT !.value = dflt] ELSE F(r)

read_point(t) ==
    IF t.position + point_size > Len(t.proof_data)
    THEN [ok |-> FALSE, err |-> "Insufficient proof data for point", value |-> 0, t |-> t]
    ELSE Let([t EXCEPT !.position = @ + point_size], LAMBDA t1 :
         Let(point_from_bytes(SubSeq(t.proof_data, t.position + 1,
                                     t.position + point_size)), LAMBDA point :
             IF ~point.some
             THEN [ok |-> FALSE, err |-> "Invalid point encoding", value |-> 0, t |-> t1]
             ELSE [ok |-> TRUE, err |-> "", value |-> point.value,
                   t |-> absorb_point(t1, point.value)]))

read_scalar(t) ==
    IF t.position + scalar_size > Len(t.proof_data)
    THEN [ok |-> FALSE, err |-> "Insufficient proof data for scalar", value |-> 0, t |-> t]
    ELSE Let([t EXCEPT !.position = @ + scalar_size], LAMBDA t1 :
         Let(from_repr(SubSeq(t.proof_data, t.position + 1,
                              t.position + scalar_size)), LAMBDA scalar :
             IF ~scalar.some
             THEN [ok |-> FALSE, err |-> "Invalid scalar encoding", value |-> 0, t |-> t1]
             ELSE [ok |-> TRUE, err |-> "", value |-> scalar.value,
                   t |-> absorb_scalar(t1, scalar.value)]))

\* Blake2b512 as an injective function: the digest is the padded input.
Blake2b512(input) == input \o <<1>>

\* squeeze_challenge: update([CHALLENGE_PREFIX]); finalize_reset() hands out
\* the digest and leaves a hasher with nothing absorbed.
squeeze_challenge(t) ==
    Let(Blake2b512(t.hasher \o <<CHALLENGE_PREFIX>>), LAMBDA hash_bytes :
        [value |-> from_uniform_bytes(hash_bytes),
         hash_bytes |-> hash_bytes,
         t |-> [t EXCEPT !.hasher = <<>>,
                         !.ops = Append(@, [op |-> "squeeze_challenge",
                                            bytes |-> hash_bytes])]])

---------------------------------------------------------------------------
\* VkComponents and its bincode codec (fixed-width little-endian integers,
\* u32 in 4 bytes, usize as u64 in 8 bytes, Vec as u64 length then items).
\* Integers of 2^24 and more are outside the modelled inputs.

LE(n, width) == <<n % 256, (n \div 256) % 256, n \div 65536>> \o Zeros(width - 3)

RECURSIVE ConcatRange(_, _, _)
ConcatRange(ss, lo, hi) ==
    IF lo > hi THEN <<>>
    ELSE IF lo = hi THEN ss[lo]
    ELSE LET mid == (lo + hi) \div 2
         IN  ConcatRange(ss, lo, mid) \o ConcatRange(ss, mid + 1, hi)

Concat(ss) == ConcatRange(ss, 1, Len(ss))

ser_bytes(v) == LE(Len(v), 8) \o v

ser_vec_bytes(vv) ==
    LE(Len(vv), 8) \o Concat([i \in 1..Len(vv) |-> ser_bytes(vv[i])])

ser_columns(cs) ==
    LE(Len(cs), 8) \o Concat([i \in 1..Len(cs) |-> LE(cs[i][1], 8) \o <<cs[i][2]>>])

\* VkComponents::to_bytes
to_bytes(vk) ==
    LE(vk.k, 4) \o LE(vk.extended_k, 4) \o ser_bytes(vk.omega)
    \o LE(vk.num_fixed_columns, 8) \o LE(vk.num_advice_columns, 8)
    \o LE(vk.num_instance_columns, 8) \o LE(vk.num_selectors, 8)
    \o ser_vec_bytes(vk.fixed_commitments)
    \o ser_vec_bytes(vk.permutation_commitments)
    \o ser_columns(vk.permutation_columns)

DeFail == [ok |-> FALSE, value |-> 0, pos |-> 0]

\* An item that fails to decode fails the whole decoding.
TryDe(r, F(_)) == IF ~r.ok THEN DeFail ELSE F(r)

de_int(bytes, pos, width) ==
    IF pos + width > Len(bytes) THEN DeFail
    ELSE IF \E i \in 4..width : bytes[pos + i] # 0 THEN DeFail
    ELSE [ok |-> TRUE,
          value |-> bytes[pos + 1] + 256 * bytes[pos + 2] + 65536 * bytes[pos + 3],
          pos |-> pos + width]

de_bytes(bytes, pos) ==
    TryDe(de_int(bytes, pos, 8), LAMBDA n :
        IF n.pos + n.value > Len(bytes) THEN DeFail
        ELSE [ok |-> TRUE,
              value |-> SubSeq(bytes, n.pos + 1, n.pos + n.value),
              pos |-> n.pos + n.value])

\* A column decoded with its type read as Advice whatever the byte: a
\* variant C20 tells apart.
de_column_untyped(bytes, pos) ==
    TryDe(de_int(bytes, pos, 8), LAMBDA idx :
        IF idx.pos + 1 > Len(bytes) THEN DeFail
        ELSE [ok |-> TRUE, value |-> <<idx.value, 0>>, pos |-> idx.pos + 1])

de_column(bytes, pos) ==
    TryDe(de_int(bytes, pos, 8), LAMBDA idx :
        IF idx.pos + 1 > Len(bytes) THEN DeFail
        ELSE [ok |-> TRUE, value |-> <<idx.value, bytes[idx.pos + 1]>>,
              pos |-> idx.pos + 1])

de_item(kind, bytes, pos) ==
    IF kind = "bytes" THEN de_bytes(bytes, pos) ELSE de_column(bytes, pos)

RECURSIVE de_items(_, _, _, _)
de_items(kind, bytes, pos, n) ==
    IF n = 0 THEN [ok |-> TRUE, value |-> <<>>, pos |-> pos]
    ELSE TryDe(de_item(kind, bytes, pos), LAMBDA x :
         TryDe(de_items(kind, bytes, x.pos, n - 1), LAMBDA rest :
             [rest EXCEPT !.value = <<x.value>> \o @]))

de_vec(kind, bytes, pos) ==
    TryDe(de_int(bytes, pos, 8), LAMBDA n : de_items(kind, bytes, n.pos, n.value))

\* The fields of VkComponents in declaration order.
de_VkComponents(bytes) ==
    TryDe(de_int(bytes, 0, 4), LAMBDA f1 :
    TryDe(de_int(bytes, f1.pos, 4), LAMBDA f2 :
    TryDe(de_bytes(bytes, f2.pos), LAMBDA f3 :
    TryDe(de_int(bytes, f3.pos, 8), LAMBDA f4 :
    TryDe(de_int(bytes, f4.pos, 8), LAMBDA f5 :
    TryDe(de_int(bytes, f5.pos, 8), LAMBDA f6 :
    TryDe(de_int(bytes, f6.pos, 8), LAMBDA f7 :
    TryDe(de_vec("bytes", bytes, f7.pos), LAMBDA f8 :
    TryDe(de_vec("bytes", bytes, f8.pos), LAMBDA f9 :
    TryDe(de_vec("column", bytes, f9.pos), LAMBDA f10 :
        [ok |-> TRUE, pos |-> f10.pos,
         value |-> [k |-> f1.value, extended_k |-> f2.value, omega |-> f3.value,
                    num_fixed_columns |-> f4.value,
                    num_advice_columns |-> f5.value,
                    num_instance_columns |-> f6.value,
                    num_selectors |-> f7.value,
                    fixed_commitments |-> f8.value,
                    permutation_commitments |-> f9.value,
                    permutation_columns |-> f10.value]]))))))))))

\* VkComponents::from_bytes (bincode::deserialize: fields in declaration
\* order, an error at end of input, trailing bytes allowed).
from_bytes(bytes) ==
    Let(de_VkComponents(bytes), LAMBDA r :
        IF r.ok THEN [ok |-> TRUE, value |-> r.value]
        ELSE [ok |-> FALSE, value |-> <<>>])

\* VkComponents::get_omega
get_omega(vk) ==
    IF Len(vk.omega) # 32 THEN [ok |-> FALSE, err |-> "Invalid omega length", value |-> 0]
    ELSE LET r == from_repr(vk.omega)
         IN  IF r.some THEN [ok |-> TRUE, err |-> "", value |-> r.value]
             ELSE [ok |-> FALSE, err |-> "Failed to deserialize omega", value |-> 0]

---------------------------------------------------------------------------
\* Proof decoding.

\* Reads in sequence, stopping at the first that fails.  The n reads are
\* split in two runs, the second starting where the first ended (this keeps
\* the evaluation shallow; the order of the reads is that of the loop).
RECURSIVE read_points(_, _)
read_points(t, n) ==
    IF n = 0 THEN [ok |-> TRUE, err |-> "", value |-> <<>>, t |-> t]
    ELSE IF n = 1
    THEN Try(read_point(t), <<>>, LAMBDA r : [r EXCEPT !.value = <<@>>])
    ELSE Try(read_points(t, n \div 2), <<>>, LAMBDA first :
         Try(read_points(first.t, n - n \div 2), <<>>, LAMBDA rest :
             [rest EXCEPT !.value = first.value \o @]))

RECURSIVE read_scalars(_, _)
read_scalars(t, n) ==
    IF n = 0 THEN [ok |-> TRUE, err |-> "", value |-> <<>>, t |-> t]
    ELSE IF n = 1
    THEN Try(read_scalar(t), <<>>, LAMBDA r : [r EXCEPT !.value = <<@>>])
    ELSE Try(read_scalars(t, n \div 2), <<>>, LAMBDA first :
         Try(read_scalars(first.t, n - n \div 2), <<>>, LAMBDA rest :
             [rest EXCEPT !.value = first.value \o @]))

\* read_round storing the pair as (r, l): a variant C14 tells apart.
read_round_swapped(t) ==
    Try(read_point(t), <<>>, LAMBDA l :
    Try(read_point(l.t), <<>>, LAMBDA r :
        [r EXCEPT !.value = <<<<r.value, l.value>>>>]))

\* l = read_point()?; r = read_point()?; (l, r)
read_round(t) ==
    Try(read_point(t), <<>>, LAMBDA l :
    Try(read_point(l.t), <<>>, LAMBDA r :
        [r EXCEPT !.value = <<<<l.value, r.value>>>>]))

\* for _ in 0..vk.k { ...; rounds.push((l, r)) }
RECURSIVE read_rounds(_, _)
read_rounds(t, n) ==
    IF n = 0 THEN [ok |-> TRUE, err |-> "", value |-> <<>>, t |-> t]
    ELSE IF n = 1 THEN read_round(t)
    ELSE Try(read_rounds(t, n \div 2), <<>>, LAMBDA first :
         Try(read_rounds(first.t, n - n \div 2), <<>>, LAMBDA rest :
             [rest EXCEPT !.value = first.value \o @]))

num_quotient_parts == 3

NoProof == [advice_commitments |-> <<>>, permutation_product_commitment |-> 0,
            quotient_commitment |-> <<>>, advice_evals |-> <<>>,
            fixed_evals |-> <<>>, permutation_evals |-> <<>>,
            permutation_product_eval |-> 0, permutation_product_next_eval |-> 0,
            ipa_proof |-> [s_poly_commitment |-> 0, eval_value |-> 0, rounds |-> <<>>]]

parse_proof(proof_bytes, vk) ==
    Try(read_points(Transcript_new(proof_bytes), vk.num_advice_columns), NoProof,
        LAMBDA advice_commitments :
    Try(read_point(advice_commitments.t), NoProof,
        LAMBDA permutation_product_commitment :
    Try(read_points(permutation_product_commitment.t, num_quotient_parts), NoProof,
        LAMBDA quotient_commitment :
    Try(read_scalars(quotient_commitment.t, vk.num_advice_columns), NoProof,
        LAMBDA advice_evals :
    Try(read_scalars(advice_evals.t, vk.num_fixed_columns), NoProof,
        LAMBDA fixed_evals :
    Try(read_scalars(fixed_evals.t, Len(vk.permutation_columns)), NoProof,
        LAMBDA permutation_evals :
    Try(read_scalar(permutation_evals.t), NoProof,
        LAMBDA permutation_product_eval :
    Try(read_scalar(permutation_product_eval.t), NoProof,
        LAMBDA permutation_product_next_eval :
    Try(read_point(permutation_product_next_eval.t), NoProof,
        LAMBDA s_poly_commitment :
    Try(read_scalar(s_poly_commitment.t), NoProof,
        LAMBDA eval_value :
    Try(read_rounds(eval_value.t, vk.k), NoProof,
        LAMBDA rounds :
        [ok |-> TRUE, err |-> "", t |-> rounds.t,
         value |->
           [advice_commitments |-> advice_commitments.value,
            permutation_product_commitment |-> permutation_product_commitment.value,
            quotient_commitment |-> quotient_commitment.value,
            advice_evals |-> advice_evals.value,
            fixed_evals |-> fixed_evals.value,
            permutation_evals |-> permutation_evals.value,
            permutation_product_eval |-> permutation_product_eval.value,
            permutation_product_next_eval |-> permutation_product_next_eval.value,
            ipa_proof |-> [s_poly_commitment |-> s_poly_commitment.value,
                           eval_value |-> eval_value.value,
                           rounds |-> rounds.value]]])))))))))))

---------------------------------------------------------------------------
\* Challenge generation.

RECURSIVE absorb_points(_, _)
absorb_points(t, ps) ==
    IF ps = <<>> THEN t ELSE absorb_points(absorb_point(t, Head(ps)), Tail(ps))

RECURSIVE absorb_scalars(_, _)
absorb_scalars(t, ss) ==
    IF ss = <<>> THEN t ELSE absorb_scalars(absorb_scalar(t, Head(ss)), Tail(ss))

\* generate_challenges with the fixed evaluations absorbed before the advice
\* evaluations: a variant the protocol sequence (C7) tells apart.
generate_challenges_reordered(transcript, proof) ==
    Let(squeeze_challenge(absorb_points(transcript, proof.advice_commitments)),
        LAMBDA beta :
    Let(squeeze_challenge(beta.t), LAMBDA gamma :
    Let(squeeze_challenge(absorb_point(gamma.t, proof.permutation_product_commitment)),
        LAMBDA theta :
    Let(squeeze_challenge(absorb_points(theta.t, proof.quotient_commitment)),
        LAMBDA zeta :
    LET t4 == absorb_scalars(zeta.t, proof.fixed_evals)
        t5 == absorb_scalars(t4, proof.advice_evals)
        t6 == absorb_scalars(t5, proof.permutation_evals)
        t7 == absorb_scalar(t6, proof.permutation_product_eval)
        t8 == absorb_scalar(t7, proof.permutation_product_next_eval)
    IN  Let(squeeze_challenge(t8), LAMBDA v :
        [value |-> [beta |-> beta.value, gamma |-> gamma.value, theta |-> theta.value,
                    zeta |-> zeta.value, v |-> v.value],
         t |-> v.t])))))

generate_challenges(transcript, proof) ==
    Let(squeeze_challenge(absorb_points(transcript, proof.advice_commitments)),
        LAMBDA beta :
    Let(squeeze_challenge(beta.t), LAMBDA gamma :
    Let(squeeze_challenge(absorb_point(gamma.t, proof.permutation_product_commitment)),
        LAMBDA theta :
    Let(squeeze_challenge(absorb_points(theta.t, proof.quotient_commitment)),
        LAMBDA zeta :
    LET t4 == absorb_scalars(zeta.t, proof.advice_evals)
        t5 == absorb_scalars(t4, proof.fixed_evals)
        t6 == absorb_scalars(t5, proof.permutation_evals)
        t7 == absorb_scalar(t6, proof.permutation_product_eval)
        t8 == absorb_scalar(t7, proof.permutation_product_next_eval)
    IN  Let(squeeze_challenge(t8), LAMBDA v :
        [value |-> [beta |-> beta.value, gamma |-> gamma.value, theta |-> theta.value,
                    zeta |-> zeta.value, v |-> v.value],
         t |-> v.t])))))

---------------------------------------------------------------------------
\* Constraint checks.  A check ends with Ok, with Err(message), or with a
\* panic (an index out of bounds, an overflowing shift).

CheckOk(v) == [ok |-> TRUE, err |-> "", panic |-> FALSE, value |-> v]
CheckErr(e) == [ok |-> FALSE, err |-> e, panic |-> FALSE, value |-> 0]
CheckPanic(e) == [ok |-> FALSE, err |-> e, panic |-> TRUE, value |-> 0]

\* r?: an Err (or a panic) ends the function; otherwise F is the rest.
TryCheck(r, F(_)) == IF ~r.ok THEN r ELSE F(r)

expected_perm_cols == 4

\* The left product with the advice evaluation taken by the position of the
\* column in permutation_columns: a variant C28 tells apart.
RECURSIVE left_product_loop_by_position(_, _, _, _, _, _, _)
left_product_loop_by_position(proof, vk, challenges, omega, i, left_product, omega_power) ==
    IF i = expected_perm_cols THEN CheckOk(left_product)
    ELSE IF i >= Len(vk.permutation_columns)
         THEN CheckPanic("index out of bounds: permutation_columns")
    ELSE LET col_idx == vk.permutation_columns[i + 1][1]
             col_type == vk.permutation_columns[i + 1][2]
         IN  IF col_type = 0 /\ col_idx >= Len(proof.advice_evals)
             THEN CheckErr("Advice evaluation index out of bounds")
             ELSE IF col_type \notin {0, 1}
             THEN CheckErr("Invalid permutation column type")
             ELSE LET witness_value ==
                          IF col_type = 0 /\ i < Len(proof.advice_evals)
                          THEN proof.advice_evals[i + 1] ELSE 0
                      term == FpAdd(FpAdd(witness_value,
                                          FpMul(FpMul(challenges.beta, challenges.zeta),
                                                omega_power)),
                                    challenges.gamma)
                  IN  left_product_loop_by_position(proof, vk, challenges, omega, i + 1,
                                                    FpMul(left_product, term),
                                                    FpMul(omega_power, omega))

\* First loop of verify_permutation_argument: the left product.
RECURSIVE left_product_loop(_, _, _, _, _, _, _)
left_product_loop(proof, vk, challenges, omega, i, left_product, omega_power) ==
    IF i = expected_perm_cols THEN CheckOk(left_product)
    ELSE IF i >= Len(vk.permutation_columns)
         THEN CheckPanic("index out of bounds: permutation_columns")
    ELSE LET col_idx == vk.permutation_columns[i + 1][1]
             col_type == vk.permutation_columns[i + 1][2]
         IN  IF col_type = 0 /\ col_idx >= Len(proof.advice_evals)
             THEN CheckErr("Advice evaluation index out of bounds")
             ELSE IF col_type \notin {0, 1}
             THEN CheckErr("Invalid permutation column type")
             ELSE LET witness_value ==
                          IF col_type = 0 THEN proof.advice_evals[col_idx + 1] ELSE 0
                      term == FpAdd(FpAdd(witness_value,
                                          FpMul(FpMul(challenges.beta, challenges.zeta),
                                                omega_power)),
                                    challenges.gamma)
                  IN  left_product_loop(proof, vk, challenges, omega, i + 1,
                                        FpMul(left_product, term),
                                        FpMul(omega_power, omega))

\* Second loop: the right product.  advice_evals is indexed unchecked here.
RECURSIVE right_product_loop(_, _, _, _, _)
right_product_loop(proof, vk, challenges, i, right_product) ==
    IF i = expected_perm_cols THEN CheckOk(right_product)
    ELSE IF i >= Len(vk.permutation_columns)
         THEN CheckPanic("index out of bounds: permutation_columns")
    ELSE LET col_idx == vk.permutation_columns[i + 1][1]
             col_type == vk.permutation_columns[i + 1][2]
         IN  IF col_type = 0 /\ col_idx >= Len(proof.advice_evals)
             THEN CheckPanic("index out of bounds: advice_evals")
             ELSE IF col_type \notin {0, 1}
             THEN CheckErr("Invalid permutation column type")
             ELSE IF i >= Len(proof.permutation_evals)
             THEN CheckErr("Permutation evaluation index out of bounds")
             ELSE LET witness_value ==
                          IF col_type = 0 THEN proof.advice_evals[col_idx + 1] ELSE 0
                      perm_eval == proof.permutation_evals[i + 1]
                      term == FpAdd(FpAdd(witness_value,
                                          FpMul(challenges.beta, perm_eval)),
                                    challenges.gamma)
                  IN  right_product_loop(proof, vk, challenges, i + 1,
                                         FpMul(right_product, term))

verify_permutation_argument(proof, vk, challenges) ==
    IF Len(vk.permutation_columns) # expected_perm_cols
    THEN CheckErr("Incorrect permutation column count")
    ELSE Let(get_omega(vk), LAMBDA omega :
         IF ~omega.ok THEN CheckErr(omega.err)
         ELSE TryCheck(left_product_loop(proof, vk, challenges, omega.value, 0, 1, 1),
                       LAMBDA left :
              TryCheck(right_product_loop(proof, vk, challenges, 0, 1),
                       LAMBDA right :
                  IF FpMul(proof.permutation_product_next_eval, left.value)
                     # FpMul(proof.permutation_product_eval, right.value)
                  THEN CheckErr("Permutation grand product check failed")
                  ELSE CheckOk(0))))

\* The gates with the balance check as a0 - a2 + a1: a variant C16 tells
\* apart.
verify_tx_privacy_gates_plus(proof, vk) ==
    IF vk.num_selectors # 3 THEN CheckErr("Expected 3 selectors for tx_privacy gates")
    ELSE IF Len(proof.advice_evals) # 3
         THEN CheckErr("Expected 3 advice column evaluations")
    ELSE IF Len(proof.fixed_evals) < vk.num_selectors
         THEN CheckErr("Not enough fixed evaluations for selectors")
    ELSE IF Len(proof.fixed_evals) < 2
         THEN CheckPanic("index out of bounds: fixed_evals")
    ELSE LET a0 == proof.advice_evals[1]
             a1 == proof.advice_evals[2]
             a2 == proof.advice_evals[3]
             s_commitment == proof.fixed_evals[1]
             s_balance_check == proof.fixed_evals[2]
             s_merkle == IF Len(proof.fixed_evals) > 2 THEN proof.fixed_evals[3] ELSE 0
             gate1_result == FpMul(s_commitment, FpSub(FpAdd(a0, a1), a2))
             gate2_result == FpMul(s_balance_check, FpAdd(FpSub(a0, a2), a1))
             gate3_result == FpMul(s_merkle, FpSub(FpAdd(a0, a1), a2))
         IN  IF gate1_result # 0 THEN CheckErr("Commitment gate constraint failed")
             ELSE IF gate2_result # 0 THEN CheckErr("Balance check gate constraint failed")
             ELSE IF gate3_result # 0 THEN CheckErr("Merkle gate constraint failed")
             ELSE CheckOk(0)

\* The gates without the count of fixed evaluations: a variant C26 tells
\* apart.
verify_tx_privacy_gates_uncounted(proof, vk) ==
    IF vk.num_selectors # 3 THEN CheckErr("Expected 3 selectors for tx_privacy gates")
    ELSE IF Len(proof.advice_evals) # 3
         THEN CheckErr("Expected 3 advice column evaluations")
    ELSE IF Len(proof.fixed_evals) < 2
         THEN CheckPanic("index out of bounds: fixed_evals")
    ELSE LET a0 == proof.advice_evals[1]
             a1 == proof.advice_evals[2]
             a2 == proof.advice_evals[3]
             s_commitment == proof.fixed_evals[1]
             s_balance_check == proof.fixed_evals[2]
             s_merkle == IF Len(proof.fixed_evals) > 2 THEN proof.fixed_evals[3] ELSE 0
             gate1_result == FpMul(s_commitment, FpSub(FpAdd(a0, a1), a2))
             gate2_result == FpMul(s_balance_check, FpSub(FpSub(a0, a2), a1))
             gate3_result == FpMul(s_merkle, FpSub(FpAdd(a0, a1), a2))
         IN  IF gate1_result # 0 THEN CheckErr("Commitment gate constraint failed")
             ELSE IF gate2_result # 0 THEN CheckErr("Balance check gate constraint failed")
             ELSE IF gate3_result # 0 THEN CheckErr("Merkle gate constraint failed")
             ELSE CheckOk(0)

verify_tx_privacy_gates(proof, vk) ==
    IF vk.num_selectors # 3 THEN CheckErr("Expected 3 selectors for tx_privacy gates")
    ELSE IF Len(proof.advice_evals) # 3
         THEN CheckErr("Expected 3 advice column evaluations")
    ELSE IF Len(proof.fixed_evals) < vk.num_selectors
         THEN CheckErr("Not enough fixed evaluations for selectors")
    ELSE IF Len(proof.fixed_evals) < 2
         THEN CheckPanic("index out of bounds: fixed_evals")
    ELSE LET a0 == proof.advice_evals[1]
             a1 == proof.advice_evals[2]
             a2 == proof.advice_evals[3]
             s_commitment == proof.fixed_evals[1]
             s_balance_check == proof.fixed_evals[2]
             s_merkle == IF Len(proof.fixed_evals) > 2 THEN proof.fixed_evals[3] ELSE 0
             gate1_result == FpMul(s_commitment, FpSub(FpAdd(a0, a1), a2))
             gate2_result == FpMul(s_balance_check, FpSub(FpSub(a0, a2), a1))
             gate3_result == FpMul(s_merkle, FpSub(FpAdd(a0, a1), a2))
         IN  IF gate1_result # 0 THEN CheckErr("Commitment gate constraint failed")
             ELSE IF gate2_result # 0 THEN CheckErr("Balance check gate constraint failed")
             ELSE IF gate3_result # 0 THEN CheckErr("Merkle gate constraint failed")
             ELSE CheckOk(0)

verify_plonk_constraints(proof, vk, challenges) ==
    IF Len(proof.advice_commitments) # vk.num_advice_columns
    THEN CheckErr("Advice column count mismatch")
    ELSE IF Len(vk.permutation_commitments) # Len(vk.permutation_columns)
    THEN CheckErr("Permutation structure mismatch")
    ELSE IF vk.num_advice_columns # 3
    THEN CheckErr("Expected 3 advice columns for tx_privacy circuit")
    ELSE IF vk.num_selectors # 3
    THEN CheckErr("Expected 3 selectors for tx_privacy circuit")
    ELSE TryCheck(verify_permutation_argument(proof, vk, challenges),
                  LAMBDA perm : verify_tx_privacy_gates(proof, vk))

---------------------------------------------------------------------------
\* Commitment parameters.  build.rs generates Params::<EqAffine>::new(K) and
\* embeds its serialization; the model keeps the header (k) of PARAMS_BYTES
\* and derives the generators g[0..2^k) from it.

K == 10

\* 1 << e for the shift amounts the model computes with.
Pow2(e) == 2 ^ e

\* Params::read
Params_read(params_bytes) ==
    Let(de_int(params_bytes, 0, 4), LAMBDA k :
        IF ~k.ok THEN CheckErr("Failed to deserialize params")
        ELSE CheckOk([k |-> k.value]))

\* Params::get_g: 2^k generators, none the identity.
get_g(params) == [i \in 1..Pow2(params.k) |-> 1 + ((37 * i) % (FpModulus - 1))]

load_params(feature_std, params_bytes) ==
    IF params_bytes = <<>> THEN CheckErr("Params not embedded")
    ELSE IF feature_std THEN Params_read(params_bytes)
    ELSE CheckErr("Params loading requires std feature for now")

\* The zeros put in front of the values: a variant C24 tells apart.
resize_front(v, n) == IF Len(v) >= n THEN SubSeq(v, 1, n) ELSE Zeros(n - Len(v)) \o v

\* Vec::resize(n, Fp::zero()): truncates a longer vector, pads a shorter one.
resize(v, n) == IF Len(v) >= n THEN SubSeq(v, 1, n) ELSE v \o Zeros(n - Len(v))

\* for (i, value) in values.iter().enumerate() { if i >= g.len() { break }
\*   acc += g[i] * value }
msm(g, values) ==
    Let(Min(Len(values), Len(g)), LAMBDA m :
        SumMod([i \in 1..m |-> PointMul(g[i], values[i])], 1, m))

compute_commitment(params, values) ==
    LET n == Pow2(params.k)
    IN  IF Len(values) > n THEN CheckErr("Values exceed params size")
        ELSE CheckOk(msm(get_g(params), values))

RECURSIVE commit_columns(_, _, _)
commit_columns(params, public_inputs, commitments) ==
    IF public_inputs = <<>> THEN CheckOk(commitments)
    ELSE Let(resize(Head(public_inputs), Pow2(params.k)), LAMBDA padded :
         TryCheck(compute_commitment(params, padded), LAMBDA commitment :
             commit_columns(params, Tail(public_inputs),
                            Append(commitments, commitment.value))))

compute_instance_commitments(public_inputs, feature_std, params_bytes) ==
    IF ~feature_std THEN CheckErr("Instance commitments require std feature")
    ELSE TryCheck(load_params(feature_std, params_bytes), LAMBDA params :
             commit_columns(params.value, public_inputs, <<>>))

---------------------------------------------------------------------------
\* IPA opening verification.

\* The rounds with the right point absorbed before the left: a variant C18
\* tells apart.
RECURSIVE round_challenges_right_first(_, _, _, _)
round_challenges_right_first(t, rounds, lo, hi) ==
    IF lo > hi THEN [t |-> t, value |-> <<>>]
    ELSE IF lo = hi
    THEN Let(squeeze_challenge(absorb_point(absorb_point(t, rounds[lo][2]),
                                            rounds[lo][1])), LAMBDA u :
             [t |-> u.t, value |-> <<u.value>>])
    ELSE Let(round_challenges_right_first(t, rounds, lo, (lo + hi) \div 2),
             LAMBDA first :
         Let(round_challenges_right_first(first.t, rounds, (lo + hi) \div 2 + 1, hi),
             LAMBDA rest :
             [value |-> first.value \o rest.value, t |-> rest.t]))

\* Absorb (l, r) and squeeze u for rounds lo..hi in order; collects the
\* challenges.
RECURSIVE round_challenges(_, _, _, _)
round_challenges(t, rounds, lo, hi) ==
    IF lo > hi THEN [t |-> t, value |-> <<>>]
    ELSE IF lo = hi
    THEN Let(squeeze_challenge(absorb_point(absorb_point(t, rounds[lo][1]),
                                            rounds[lo][2])), LAMBDA u :
             [t |-> u.t, value |-> <<u.value>>])
    ELSE Let(round_challenges(t, rounds, lo, (lo + hi) \div 2), LAMBDA first :
         Let(round_challenges(first.t, rounds, (lo + hi) \div 2 + 1, hi), LAMBDA rest :
             [value |-> first.value \o rest.value, t |-> rest.t]))

\* j >> i on usize; a shift amount of UsizeBits or more is masked when
\* overflow checks are off.  j is below 2^30 in the model.
Shr(j, i) == IF i % UsizeBits >= 30 THEN 0 ELSE j \div Pow2(i % UsizeBits)

\* The fold with u where the bit is clear and its inverse where it is set: a
\* variant C19 tells apart.
RECURSIVE fold_b_scalars_inverted(_, _, _, _, _)
fold_b_scalars_inverted(challenges, lo, hi, n, b_scalars) ==
    IF lo > hi THEN b_scalars
    ELSE IF lo = hi
    THEN LET u == challenges[lo + 1]
             inv == invert(u)
             u_inv == IF inv.some THEN inv.value ELSE 1
         IN  <<>> \o [j \in 1..n |-> IF Shr(j - 1, lo) % 2 = 1
                                   THEN FpMul(b_scalars[j], u_inv)
                                   ELSE FpMul(b_scalars[j], u)]
    ELSE LET mid == (lo + hi) \div 2
             first == fold_b_scalars_inverted(challenges, lo, mid, n, b_scalars)
         IN  IF Len(first) = n
             THEN fold_b_scalars_inverted(challenges, mid + 1, hi, n, first)
             ELSE first

\* for (i, &u) in challenges.iter().enumerate() { for j in 0..n { ... } },
\* for the challenges with index lo..hi (0-based) in order.
RECURSIVE fold_b_scalars(_, _, _, _, _)
fold_b_scalars(challenges, lo, hi, n, b_scalars) ==
    IF lo > hi THEN b_scalars
    ELSE IF lo = hi
    THEN LET u == challenges[lo + 1]
             inv == invert(u)
             u_inv == IF inv.some THEN inv.value ELSE 1
         IN  <<>> \o [j \in 1..n |-> IF Shr(j - 1, lo) % 2 = 1
                                   THEN FpMul(b_scalars[j], u)
                                   ELSE FpMul(b_scalars[j], u_inv)]
    ELSE LET mid == (lo + hi) \div 2
             first == fold_b_scalars(challenges, lo, mid, n, b_scalars)
         IN  \* the test always holds; it has the first half evaluated first
             IF Len(first) = n
             THEN fold_b_scalars(challenges, mid + 1, hi, n, first)
             ELSE first

NoIpa == [xi |-> 0, z |-> 0, v |-> 0, s_poly |-> 0, challenges |-> <<>>,
          b_scalars |-> <<>>, p_prime |-> 0, ops |-> <<>>]

verify_ipa_openings(proof, instances, feature_std, overflow_checks, params_bytes) ==
    LET t0 == Transcript_new(<<>>)
        t1 == absorb_points(t0, instances)
        t2 == absorb_points(t1, proof.advice_commitments)
        s_poly == proof.ipa_proof.s_poly_commitment
        t3 == absorb_point(t2, s_poly)
        v == proof.ipa_proof.eval_value
        t4 == absorb_scalar(t3, v)
    IN  Let(squeeze_challenge(t4), LAMBDA xi :
        Let(squeeze_challenge(xi.t), LAMBDA z :
        Let(round_challenges(z.t, proof.ipa_proof.rounds, 1,
                             Len(proof.ipa_proof.rounds)), LAMBDA us :
        Let(Len(us.value), LAMBDA shift :
            IF shift >= UsizeBits /\ overflow_checks
            THEN [CheckPanic("attempt to shift left with overflow")
                    EXCEPT !.value = [NoIpa EXCEPT !.ops = us.t.ops]]
            ELSE
        Let(Pow2(shift % UsizeBits), LAMBDA n :
        Let(fold_b_scalars(us.value, 0, shift - 1, n, [j \in 1..n |-> 1]),
            LAMBDA b_scalars :
        Let([xi |-> xi.value, z |-> z.value, v |-> v, s_poly |-> s_poly,
             challenges |-> us.value, b_scalars |-> b_scalars,
             p_prime |-> 0, ops |-> us.t.ops], LAMBDA locals :
            IF ~feature_std
            THEN [CheckErr("IPA MSM verification requires std feature")
                    EXCEPT !.value = locals]
            ELSE
        Let(load_params(feature_std, params_bytes), LAMBDA params :
            IF ~params.ok THEN [params EXCEPT !.value = locals]
            ELSE CheckOk([locals EXCEPT
                            !.p_prime = msm(get_g(params.value), b_scalars)])))))))))

---------------------------------------------------------------------------
\* Entry points.

OkTrue == [kind |-> "Ok", value |-> TRUE, err |-> ""]
OkFalse == [kind |-> "Ok", value |-> FALSE, err |-> ""]
Err(e) == [kind |-> "Err", value |-> FALSE, err |-> e]
Panic(e) == [kind |-> "panic", value |-> FALSE, err |-> e]
NoResult == [kind |-> "none", value |-> FALSE, err |-> ""]

\* Result of a failed check as the result of the call (the ? operator, or
\* the unwinding of a panic).
Failed(r) == IF r.panic THEN Panic(r.err) ELSE Err(r.err)

\* The two guards in the other order: a variant C8 tells apart.
check_inputs_swapped(bytes, inputs) ==
    IF inputs = <<>> THEN Err("Empty public inputs")
    ELSE IF bytes = <<>> THEN Err("Empty proof")
    ELSE NoResult

\* verify_proof_nostd, the two guards on its arguments.
check_inputs(bytes, inputs) ==
    IF bytes = <<>> THEN Err("Empty proof")
    ELSE IF inputs = <<>> THEN Err("Empty public inputs")
    ELSE NoResult

\* The guard testing the key alone, not the parameters: a variant C22 tells
\* apart.
load_vk_key_only(vk_bytes, params_bytes) ==
    IF vk_bytes = <<>> THEN CheckErr("VK or params not embedded")
    ELSE Let(from_bytes(vk_bytes), LAMBDA r :
             IF ~r.ok THEN CheckErr("Failed to deserialize VK") ELSE CheckOk(r.value))

\* verify_proof_nostd, the guard on the embedded keys and load_vk.
load_vk(vk_bytes, params_bytes) ==
    IF vk_bytes = <<>> \/ params_bytes = <<>> THEN CheckErr("VK or params not embedded")
    ELSE Let(from_bytes(vk_bytes), LAMBDA r :
             IF ~r.ok THEN CheckErr("Failed to deserialize VK") ELSE CheckOk(r.value))

\* The stage order with the instance commitments computed before the
\* constraints are checked: a variant C1 tells apart.
StageAfter_swapped(stage) ==
    CASE stage = "check_inputs" -> "load_vk"
      [] stage = "load_vk" -> "parse_proof"
      [] stage = "parse_proof" -> "generate_challenges"
      [] stage = "generate_challenges" -> "compute_instance_commitments"
      [] stage = "compute_instance_commitments" -> "verify_plonk_constraints"
      [] stage = "verify_plonk_constraints" -> "verify_ipa_openings"
      [] stage = "verify_ipa_openings" -> "done"

\* The stages of verify_proof_nostd in the order of its body: the stage
\* that runs once the given one has succeeded.
StageAfter(stage) ==
    CASE stage = "check_inputs" -> "load_vk"
      [] stage = "load_vk" -> "parse_proof"
      [] stage = "parse_proof" -> "generate_challenges"
      [] stage = "generate_challenges" -> "verify_plonk_constraints"
      [] stage = "verify_plonk_constraints" -> "compute_instance_commitments"
      [] stage = "compute_instance_commitments" -> "verify_ipa_openings"
      [] stage = "verify_ipa_openings" -> "done"

\* verify_proof_nostd as a function of its arguments and of the build.
verify_proof_nostd(bytes, inputs, vk_bytes, params_bytes, std, checks) ==
    Let(check_inputs(bytes, inputs), LAMBDA guard :
        IF guard # NoResult THEN guard ELSE
    Let(load_vk(vk_bytes, params_bytes), LAMBDA v :
        IF ~v.ok THEN Failed(v) ELSE
    Let(parse_proof(bytes, v.value), LAMBDA p :
        IF ~p.ok THEN Err(p.err) ELSE
    Let(generate_challenges(Transcript_new(bytes), p.value), LAMBDA c :
    Let(verify_plonk_constraints(p.value, v.value, c.value), LAMBDA plonk :
        IF ~plonk.ok THEN Failed(plonk) ELSE
    Let(compute_instance_commitments(inputs, std, params_bytes), LAMBDA ic :
        IF ~ic.ok THEN Failed(ic) ELSE
    Let(verify_ipa_openings(p.value, ic.value, std, checks, params_bytes), LAMBDA o :
        IF ~o.ok THEN Failed(o) ELSE OkTrue)))))))

\* The wrapper handing halo2's error on to its caller: a variant C27 tells
\* apart.
verify_with_vk_and_params_propagating(halo2_result) ==
    IF halo2_result.ok THEN OkTrue ELSE Err(halo2_result.err)

\* verifier::verify_with_vk_and_params: match verify_proof(...) { Ok(_) =>
\* Ok(true), Err(_) => Ok(false) }.  halo2_result is what halo2's
\* verify_proof returned for the transcript over proof_bytes.
verify_with_vk_and_params(halo2_result) ==
    IF halo2_result.ok THEN OkTrue ELSE OkFalse

\* verifier::load_verifying_key: no key can be loaded in this build.
load_verifying_key == CheckErr("Verifying key not embedded")

\* verifier::verify_halo2_proof
verify_halo2_proof(bytes, inputs_bytes) ==
    IF bytes = <<>> THEN Err("Empty proof")
    ELSE IF inputs_bytes = <<>> THEN Err("Empty public inputs")
    ELSE Failed(load_verifying_key)

\* lib.rs verify, in the std and in the no_std build.
verify(bytes, inputs_bytes, std) ==
    IF std THEN verify_halo2_proof(bytes, inputs_bytes)
    ELSE Err("VK not embedded. Use verify_with_vk() or enable embedded_vk feature")

\* stylus.rs ZeroStylVerifier::verify
ZeroStylVerifier_verify(bytes, inputs_bytes) ==
    IF bytes = <<>> THEN Err("Empty proof")
    ELSE Err("VK not configured. Deploy with embedded_vk feature or use library directly.")

---------------------------------------------------------------------------
\* Inputs: verification keys, proof buffers and public inputs.

\* Number of leading 32-byte chunks of a buffer in which a follow-up call
\* flips a bit.
MaxFlipChunk == 23

\* create_test_vk, with a canonical omega and one commitment per
\* permutation column.
BaseVk(k) ==
    [k |-> k, extended_k |-> k + 3, omega |-> to_repr(5),
     num_fixed_columns |-> 3, num_advice_columns |-> 3,
     num_instance_columns |-> 1, num_selectors |-> 3,
     fixed_commitments |-> <<>>,
     permutation_commitments |-> [i \in 1..4 |-> point_to_bytes(2 + i)],
     permutation_columns |-> <<<<0, 0>>, <<1, 0>>, <<2, 0>>, <<0, 1>>>>]

\* The key tools/extract_vk_v2.rs writes: two fixed columns, three
\* selectors, extended_k = k + 1, the commitments it parsed.
ExtractedVk(k) ==
    [k |-> k, extended_k |-> k + 1, omega |-> to_repr(5),
     num_fixed_columns |-> 2, num_advice_columns |-> 3,
     num_instance_columns |-> 1, num_selectors |-> 3,
     fixed_commitments |-> <<point_to_bytes(2), point_to_bytes(9)>>,
     permutation_commitments |-> [i \in 1..4 |-> point_to_bytes(2 + i)],
     permutation_columns |-> <<<<0, 0>>, <<1, 0>>, <<2, 0>>, <<0, 1>>>>]

\* Keys that differ from BaseVk(1) in one respect, and the extracted key.
DeviantVks ==
    { [BaseVk(1) EXCEPT !.num_advice_columns = 2],
      [BaseVk(1) EXCEPT !.num_fixed_columns = 2],
      [BaseVk(1) EXCEPT !.num_fixed_columns = 4],
      ExtractedVk(1),
      [BaseVk(1) EXCEPT !.num_selectors = 2],
      [BaseVk(1) EXCEPT !.permutation_commitments = <<>>],
      [BaseVk(1) EXCEPT !.permutation_commitments = SubSeq(@, 1, 3),
                        !.permutation_columns = SubSeq(@, 1, 3)],
      [BaseVk(1) EXCEPT !.permutation_columns[2] = <<3, 0>>],
      [BaseVk(1) EXCEPT !.permutation_columns[4] = <<0, 2>>],
      [BaseVk(1) EXCEPT !.omega = <<5>>],
      [BaseVk(1) EXCEPT !.omega = [to_repr(5) EXCEPT ![32] = 255]],
      BaseVk(0), BaseVk(2) }

\* A proof of the shape the key asks for: the balance-check gate is on and
\* holds for (1000, 700, 300); permutation evaluations are left at zero.
DraftProof(vk) ==
    [advice_commitments |-> [i \in 1..vk.num_advice_columns |-> 10 + i],
     permutation_product_commitment |-> 14,
     quotient_commitment |-> <<15, 16, 17>>,
     advice_evals |-> [i \in 1..vk.num_advice_columns |->
                         IF i = 1 THEN 1000 ELSE IF i = 2 THEN 700 ELSE 300],
     fixed_evals |-> [i \in 1..vk.num_fixed_columns |-> IF i = 2 THEN 1 ELSE 0],
     permutation_evals |-> [i \in 1..Len(vk.permutation_columns) |-> 0],
     permutation_product_eval |-> 7,
     permutation_product_next_eval |-> 7,
     ipa_proof |-> [s_poly_commitment |-> 18, eval_value |-> 42,
                    rounds |-> [i \in 1..vk.k |-> <<20 + i, 100 + i>>]]]

\* The draft with S_i(zeta) = zeta * omega^i, which makes both products of
\* the permutation argument equal.
SatisfyingProof(vk) ==
    Let(DraftProof(vk), LAMBDA d :
    Let(generate_challenges(Transcript_new(<<>>), d).value.zeta, LAMBDA zeta :
    Let(get_omega(vk).value, LAMBDA omega :
        [d EXCEPT !.permutation_evals =
            [i \in 1..Len(vk.permutation_columns) |->
                FpMul(zeta, FpPow(omega, i - 1))]])))

\* The draft with S_i(zeta) = zeta * omega^i for the three advice columns and
\* S_3(zeta) = 0 for the instance column, Z(zeta) the left term of that
\* column with zero as its evaluation and Z(omega*zeta) its right term: both
\* sides agree when the instance column's evaluation is taken as zero.
PermutedInstanceProof(vk) ==
    Let(DraftProof(vk), LAMBDA d :
    Let(generate_challenges(Transcript_new(<<>>), d).value, LAMBDA ch :
    Let(get_omega(vk).value, LAMBDA omega :
        [d EXCEPT !.permutation_evals =
                      [i \in 1..Len(vk.permutation_columns) |->
                          IF i < 4 THEN FpMul(ch.zeta, FpPow(omega, i - 1)) ELSE 0],
                  !.permutation_product_eval =
                      FpAdd(FpMul(FpMul(ch.beta, ch.zeta), FpPow(omega, 3)), ch.gamma),
                  !.permutation_product_next_eval = ch.gamma])))

ZeroProof(vk) ==
    [advice_commitments |-> [i \in 1..vk.num_advice_columns |-> 0],
     permutation_product_commitment |-> 0,
     quotient_commitment |-> <<0, 0, 0>>,
     advice_evals |-> [i \in 1..vk.num_advice_columns |-> 0],
     fixed_evals |-> [i \in 1..vk.num_fixed_columns |-> 0],
     permutation_evals |-> [i \in 1..Len(vk.permutation_columns) |-> 0],
     permutation_product_eval |-> 0,
     permutation_product_next_eval |-> 0,
     ipa_proof |-> [s_poly_commitment |-> 0, eval_value |-> 0,
                    rounds |-> [i \in 1..vk.k |-> <<0, 0>>]]]

encode_points(ps) == Concat([i \in 1..Len(ps) |-> point_to_bytes(ps[i])])
encode_scalars(ss) == Concat([i \in 1..Len(ss) |-> to_repr(ss[i])])

\* The wire format, as test_parse_proof_valid_structure builds it.
encode_proof(p) ==
    encode_points(p.advice_commitments)
    \o point_to_bytes(p.permutation_product_commitment)
    \o encode_points(p.quotient_commitment)
    \o encode_scalars(p.advice_evals)
    \o encode_scalars(p.fixed_evals)
    \o encode_scalars(p.permutation_evals)
    \o to_repr(p.permutation_product_eval)
    \o to_repr(p.permutation_product_next_eval)
    \o point_to_bytes(p.ipa_proof.s_poly_commitment)
    \o to_repr(p.ipa_proof.eval_value)
    \o Concat([i \in 1..Len(p.ipa_proof.rounds) |->
                 point_to_bytes(p.ipa_proof.rounds[i][1])
                 \o point_to_bytes(p.ipa_proof.rounds[i][2])])

\* Buffers tried against the base key.
ProofBufs(vk) ==
    Let(SatisfyingProof(vk), LAMBDA s :
    Let(encode_proof(s), LAMBDA h :
        { <<>>, <<1, 2, 3>>, h,
          encode_proof(ZeroProof(vk)),
          encode_proof([s EXCEPT !.advice_evals[3] = 301]),
          encode_proof([s EXCEPT !.permutation_product_next_eval = 8]),
          SubSeq(h, 1, Len(h) - 1),
          SubSeq(h, 1, Len(h) - 32),
          h \o <<9>>,
          [h EXCEPT ![3] = 1],
          [h EXCEPT ![7 * 32 + 3] = 1] }))

\* Buffers tried against the other keys.
FewProofBufs(vk) == { encode_proof(SatisfyingProof(vk)), encode_proof(ZeroProof(vk)) }

\* The satisfying buffer cut short: at every chunk boundary, and five bytes
\* into every chunk.
TruncatedBufs(vk) ==
    Let(encode_proof(SatisfyingProof(vk)), LAMBDA h :
        { SubSeq(h, 1, n) :
            n \in { 32 * c + d : c \in 0..(Len(h) \div 32 - 1), d \in {0, 5} } \ {0} })

PublicInputsSet == { <<>>, <<<<1>>>>, <<<<2>>>>, <<<<1, 0>>>>, <<<<1>>, <<2>>>> }

\* Flip bit `bit` of the byte at 1-based position pos.
FlipBit(bytes, pos, bit) ==
    [bytes EXCEPT ![pos] = IF (@ \div Pow2(bit)) % 2 = 1
                           THEN @ - Pow2(bit) ELSE @ + Pow2(bit)]

\* (byte within the chunk, bit within the byte) of the bits flipped: the
\* lowest bit of the chunk and its highest.
FlipBits == { <<0, 0>>, <<31, 7>> }

---------------------------------------------------------------------------
\* State.  The build (features, overflow checks, embedded keys), the
\* arguments of the call in progress, the locals of verify_proof_nostd, and
\* the previous call of the same process.

VARIABLES feature_std, overflow_checks, VK_BYTES, PARAMS_BYTES,
          entry, proof_bytes, public_inputs, public_inputs_bytes,
          pc, result, vk, proof, transcript, challenges,
          instance_commitments, ipa, stages, prev,
          call

build == <<feature_std, overflow_checks, VK_BYTES, PARAMS_BYTES>>
args == <<entry, proof_bytes, public_inputs, public_inputs_bytes>>
locals == <<vk, proof, transcript, challenges, instance_commitments, ipa>>
program == <<build, args, pc, result, locals, stages, prev>>
vars == <<program, call>>

NoVk == [k |-> 0, extended_k |-> 0, omega |-> <<>>, num_fixed_columns |-> 0,
         num_advice_columns |-> 0, num_instance_columns |-> 0, num_selectors |-> 0,
         fixed_commitments |-> <<>>, permutation_commitments |-> <<>>,
         permutation_columns |-> <<>>]
NoTranscript == [hasher |-> <<>>, proof_data |-> <<>>, position |-> 0, ops |-> <<>>]
NoChallenges == [beta |-> 0, gamma |-> 0, theta |-> 0, zeta |-> 0, v |-> 0]
\* No function is being called on its own.
NoCall == [fn |-> "none"]
NoPrev == [has |-> FALSE, proof_bytes |-> <<>>, public_inputs |-> <<>>,
           result |-> NoResult, ops |-> <<>>]

FreshLocals ==
    /\ vk = NoVk
    /\ proof = NoProof
    /\ transcript = NoTranscript
    /\ challenges = NoChallenges
    /\ instance_commitments = <<>>
    /\ ipa = NoIpa

\* The embedded parameters build.rs writes.
EmbeddedParams == LE(K, 4)

InitNostd ==
    /\ entry = "verify_proof_nostd"
    /\ public_inputs_bytes = <<>>
    /\ PARAMS_BYTES \in { EmbeddedParams, <<>> }
    /\ \/ /\ VK_BYTES = to_bytes(BaseVk(1))
          /\ feature_std = TRUE
          /\ overflow_checks = TRUE
          /\ \/ /\ proof_bytes \in ProofBufs(BaseVk(1))
                /\ public_inputs \in { <<>>, <<<<1>>>> }
             \/ /\ proof_bytes \in FewProofBufs(BaseVk(1))
                /\ public_inputs \in PublicInputsSet
             \/ /\ proof_bytes \in TruncatedBufs(BaseVk(1))
                /\ public_inputs = <<<<1>>>>
             \/ /\ proof_bytes = encode_proof(PermutedInstanceProof(BaseVk(1)))
                /\ public_inputs \in {<<<<1>>>>, <<<<2>>>>}
       \/ /\ VK_BYTES = to_bytes(BaseVk(1))
          /\ feature_std = FALSE
          /\ overflow_checks = TRUE
          /\ proof_bytes \in FewProofBufs(BaseVk(1))
          /\ public_inputs = <<<<1>>>>
       \/ /\ \E v \in DeviantVks :
                /\ VK_BYTES = to_bytes(v)
                /\ proof_bytes \in FewProofBufs(v)
          /\ feature_std = TRUE
          /\ overflow_checks = TRUE
          /\ public_inputs = <<<<1>>>>
       \/ /\ VK_BYTES = to_bytes(BaseVk(UsizeBits))
          /\ proof_bytes \in FewProofBufs(BaseVk(UsizeBits))
          /\ feature_std = TRUE
          /\ overflow_checks \in BOOLEAN
          /\ public_inputs = <<<<1>>>>
       \/ /\ VK_BYTES \in { <<>>, SubSeq(to_bytes(BaseVk(1)), 1, 20) }
          /\ feature_std = TRUE
          /\ overflow_checks = TRUE
          /\ proof_bytes \in { <<>>, encode_proof(ZeroProof(BaseVk(1))) }
          /\ public_inputs = <<<<1>>>>
    \* builds without parameters: with or without a key, the std build, a
    \* few buffers
    /\ PARAMS_BYTES = <<>> =>
          /\ VK_BYTES \in { <<>>, to_bytes(BaseVk(1)) }
          /\ feature_std
          /\ overflow_checks
          /\ proof_bytes \in {<<>>} \cup FewProofBufs(BaseVk(1))
          /\ public_inputs \in { <<>>, <<<<1>>>> }

InitOther ==
    /\ entry \in {"verify_halo2_proof", "verify", "ZeroStylVerifier_verify"}
    /\ feature_std \in BOOLEAN
    /\ entry = "verify_halo2_proof" => feature_std
    /\ overflow_checks = TRUE
    /\ VK_BYTES = <<>>
    /\ PARAMS_BYTES = EmbeddedParams
    /\ proof_bytes \in { <<>>, <<1, 2, 3>> }
    /\ public_inputs = <<>>
    /\ public_inputs_bytes \in { <<>>, <<1, 2, 3>> }

Init ==
    /\ InitNostd \/ InitOther
    /\ pc = "check_inputs"
    /\ result = NoResult
    /\ FreshLocals
    /\ stages = <<>>
    /\ prev = NoPrev
    /\ call = NoCall

Stage(name, r) == [name |-> name, ok |-> r.ok, err |-> r.err, panic |-> r.panic]

\* A stage of verify_proof_nostd ended with check result r: go on to the
\* next stage, or return its error.
Finish(stage, r) ==
    /\ stages' = Append(stages, Stage(stage, r))
    /\ pc' = IF r.ok THEN StageAfter(stage) ELSE "done"
    /\ result' = IF ~r.ok THEN Failed(r)
                 ELSE IF pc' = "done" THEN OkTrue ELSE result

CheckInputs ==
    /\ entry = "verify_proof_nostd"
    /\ pc = "check_inputs"
    /\ Let(check_inputs(proof_bytes, public_inputs), LAMBDA r :
           /\ result' = r
           /\ pc' = IF r = NoResult THEN StageAfter("check_inputs") ELSE "done")
    /\ UNCHANGED <<call, build, args, locals, stages, prev>>

LoadVk ==
    /\ pc = "load_vk"
    /\ Let(load_vk(VK_BYTES, PARAMS_BYTES), LAMBDA r :
           /\ vk' = IF r.ok THEN r.value ELSE vk
           /\ Finish("load_vk", r))
    /\ UNCHANGED <<call, build, args, proof, transcript, challenges,
                   instance_commitments, ipa, prev>>

ParseProof ==
    /\ pc = "parse_proof"
    /\ Let(parse_proof(proof_bytes, vk), LAMBDA r :
           /\ proof' = r.value
           /\ Finish("parse_proof", [ok |-> r.ok, err |-> r.err, panic |-> FALSE]))
    /\ UNCHANGED <<call, build, args, vk, transcript, challenges,
                   instance_commitments, ipa, prev>>

GenerateChallenges ==
    /\ pc = "generate_challenges"
    /\ Let(generate_challenges(Transcript_new(proof_bytes), proof), LAMBDA r :
           /\ transcript' = r.t
           /\ challenges' = r.value
           /\ Finish("generate_challenges", CheckOk(0)))
    /\ UNCHANGED <<call, build, args, vk, proof, instance_commitments, ipa, prev>>

VerifyPlonkConstraints ==
    /\ pc = "verify_plonk_constraints"
    /\ Finish("verify_plonk_constraints",
              verify_plonk_constraints(proof, vk, challenges))
    /\ UNCHANGED <<call, build, args, locals, prev>>

ComputeInstanceCommitments ==
    /\ pc = "compute_instance_commitments"
    /\ Let(compute_instance_commitments(public_inputs, feature_std, PARAMS_BYTES),
           LAMBDA r :
           /\ instance_commitments' = IF r.ok THEN r.value ELSE <<>>
           /\ Finish("compute_instance_commitments", r))
    /\ UNCHANGED <<call, build, args, vk, proof, transcript, challenges, ipa, prev>>

VerifyIpaOpenings ==
    /\ pc = "verify_ipa_openings"
    /\ Let(verify_ipa_openings(proof, instance_commitments, feature_std,
                               overflow_checks, PARAMS_BYTES), LAMBDA r :
           /\ ipa' = r.value
           /\ Finish("verify_ipa_openings", r))
    /\ UNCHANGED <<call, build, args, vk, proof, transcript, challenges,
                   instance_commitments, prev>>

VerifyHalo2Proof ==
    /\ entry = "verify_halo2_proof"
    /\ pc = "check_inputs"
    /\ result' = verify_halo2_proof(proof_bytes, public_inputs_bytes)
    /\ pc' = "done"
    /\ UNCHANGED <<call, build, args, locals, stages, prev>>

Verify ==
    /\ entry = "verify"
    /\ pc = "check_inputs"
    /\ result' = verify(proof_bytes, public_inputs_bytes, feature_std)
    /\ pc' = "done"
    /\ UNCHANGED <<call, build, args, locals, stages, prev>>

StylusVerify ==
    /\ entry = "ZeroStylVerifier_verify"
    /\ pc = "check_inputs"
    /\ result' = ZeroStylVerifier_verify(proof_bytes, public_inputs_bytes)
    /\ pc' = "done"
    /\ UNCHANGED <<call, build, args, locals, stages, prev>>

\* A second call answered from the first call's result: a variant C23 tells
\* apart.
CallAgain_cached(new_proof_bytes, new_public_inputs) ==
    /\ entry = "verify_proof_nostd"
    /\ pc = "done"
    /\ ~prev.has
    /\ prev' = [has |-> TRUE, proof_bytes |-> proof_bytes,
                public_inputs |-> public_inputs, result |-> result,
                ops |-> transcript.ops]
    /\ proof_bytes' = new_proof_bytes
    /\ public_inputs' = new_public_inputs
    /\ UNCHANGED <<call, build, entry, public_inputs_bytes, pc, result, locals, stages>>

\* The call has returned; the process makes one more call of
\* verify_proof_nostd, with the arguments newargs.
CallAgain(new_proof_bytes, new_public_inputs) ==
    /\ entry = "verify_proof_nostd"
    /\ pc = "done"
    /\ ~prev.has
    /\ prev' = [has |-> TRUE, proof_bytes |-> proof_bytes,
                public_inputs |-> public_inputs, result |-> result,
                ops |-> transcript.ops]
    /\ proof_bytes' = new_proof_bytes
    /\ public_inputs' = new_public_inputs
    /\ pc' = "check_inputs"
    /\ result' = NoResult
    /\ vk' = NoVk
    /\ proof' = NoProof
    /\ transcript' = NoTranscript
    /\ challenges' = NoChallenges
    /\ instance_commitments' = <<>>
    /\ ipa' = NoIpa
    /\ stages' = <<>>
    /\ UNCHANGED <<call, build, entry, public_inputs_bytes>>

\* The same call once more.
Replay == CallAgain(proof_bytes, public_inputs)

\* After an accepted proof: the same buffer with one bit flipped.
CallWithFlippedBit ==
    /\ result = OkTrue
    /\ \E c \in 0..(Min(MaxFlipChunk, Len(proof_bytes) \div 32) - 1), fb \in FlipBits :
          CallAgain(FlipBit(proof_bytes, 32 * c + fb[1] + 1, fb[2]), public_inputs)

\* After an accepted proof: the same buffer with other public inputs.
CallWithOtherInputs ==
    /\ result = OkTrue
    /\ \E inputs \in PublicInputsSet \ {public_inputs} :
          CallAgain(proof_bytes, inputs)

Next ==
    \/ CheckInputs
    \/ LoadVk
    \/ ParseProof
    \/ GenerateChallenges
    \/ VerifyPlonkConstraints
    \/ ComputeInstanceCommitments
    \/ VerifyIpaOpenings
    \/ VerifyHalo2Proof
    \/ Verify
    \/ StylusVerify
    \/ Replay
    \/ CallWithFlippedBit
    \/ CallWithOtherInputs

Spec == Init /\ [][Next]_vars

---------------------------------------------------------------------------
\* The transcript's read methods called on their own, on a transcript over
\* any buffer of ReadBufs, with absorbs and squeezes between them, at most
\* MaxReads calls in all.

MaxReads == 3

\* No entry point is running.
Idle ==
    /\ feature_std = TRUE
    /\ overflow_checks = TRUE
    /\ VK_BYTES = <<>>
    /\ PARAMS_BYTES = <<>>
    /\ entry = "none"
    /\ proof_bytes = <<>>
    /\ public_inputs = <<>>
    /\ public_inputs_bytes = <<>>
    /\ pc = "idle"
    /\ result = NoResult
    /\ FreshLocals
    /\ stages = <<>>
    /\ prev = NoPrev

\* Chunks: a point, a point with the sign bit set, a scalar that is not a
\* point, and bytes that are neither.
ReadChunks == { point_to_bytes(7), point_to_bytes(FpModulus - 7), to_repr(600),
                [i \in 1..32 |-> 255] }

\* Up to two chunks, then nothing or 31 more bytes.
ReadBufs ==
    { c \o tail :
        c \in {<<>>} \cup ReadChunks \cup { a \o b : a \in ReadChunks, b \in ReadChunks },
        tail \in { <<>>, [i \in 1..31 |-> 1] } }

InitTranscript ==
    /\ Idle
    /\ \E buf \in ReadBufs :
          call = [fn |-> "Transcript::new", n |-> 0, before |-> NoTranscript,
                  r |-> [ok |-> TRUE, err |-> "", value |-> 0, t |-> NoTranscript],
                  t |-> Transcript_new(buf)]

ReadPoint ==
    /\ call.n < MaxReads
    /\ call' = Let(read_point(call.t), LAMBDA r :
                   [fn |-> "read_point", n |-> call.n + 1, before |-> call.t,
                    r |-> r, t |-> r.t])
    /\ UNCHANGED program

ReadScalar ==
    /\ call.n < MaxReads
    /\ call' = Let(read_scalar(call.t), LAMBDA r :
                   [fn |-> "read_scalar", n |-> call.n + 1, before |-> call.t,
                    r |-> r, t |-> r.t])
    /\ UNCHANGED program

AbsorbPointAlone ==
    /\ call.n < MaxReads
    /\ \E point \in {7, FpModulus - 7} :
          call' = [fn |-> "absorb_point", n |-> call.n + 1, before |-> call.t,
                   r |-> [ok |-> TRUE, err |-> "", value |-> point,
                          t |-> absorb_point(call.t, point)],
                   t |-> absorb_point(call.t, point)]
    /\ UNCHANGED program

AbsorbScalarAlone ==
    /\ call.n < MaxReads
    /\ \E scalar \in {0, 600} :
          call' = [fn |-> "absorb_scalar", n |-> call.n + 1, before |-> call.t,
                   r |-> [ok |-> TRUE, err |-> "", value |-> scalar,
                          t |-> absorb_scalar(call.t, scalar)],
                   t |-> absorb_scalar(call.t, scalar)]
    /\ UNCHANGED program

SqueezeChallenge ==
    /\ call.n < MaxReads
    /\ call' = Let(squeeze_challenge(call.t), LAMBDA c :
                   [fn |-> "squeeze_challenge", n |-> call.n + 1, before |-> call.t,
                    r |-> [ok |-> TRUE, err |-> "", value |-> c.value, t |-> c.t],
                    t |-> c.t])
    /\ UNCHANGED program

NextTranscript ==
    \/ ReadPoint
    \/ ReadScalar
    \/ AbsorbPointAlone
    \/ AbsorbScalarAlone
    \/ SqueezeChallenge

SpecTranscript == InitTranscript /\ [][NextTranscript]_vars

----------------------------------------------------------------------------
\* verify_tx_privacy_gates called on its own, as the tests call it: a key
\* with three selectors and a proof with three advice and three fixed
\* evaluations.

GateAdvice == { 0, 300, 301, 700, 1000 }
GateSelectors == { 0, 1, 5 }

InitGates ==
    /\ Idle
    /\ \E a0 \in GateAdvice, a1 \in GateAdvice, a2 \in GateAdvice,
          s0 \in GateSelectors, s1 \in GateSelectors, s2 \in GateSelectors :
          call = [fn |-> "args",
                  proof |-> [ZeroProof(BaseVk(1)) EXCEPT
                                !.advice_evals = <<a0, a1, a2>>,
                                !.fixed_evals = <<s0, s1, s2>>],
                  r |-> CheckOk(0)]

VerifyTxPrivacyGates ==
    /\ call.fn = "args"
    /\ call' = [call EXCEPT !.fn = "verify_tx_privacy_gates",
                            !.r = verify_tx_privacy_gates(call.proof, BaseVk(1))]
    /\ UNCHANGED program

NextGates == VerifyTxPrivacyGates

SpecGates == InitGates /\ [][NextGates]_vars

----------------------------------------------------------------------------
\* compute_instance_commitments (std build) called on its own, with
\* parameters of k = 1 or 2 and one or two columns of up to MaxColumnLen
\* values.

MaxColumnLen == 5

InstanceColumns ==
    UNION { [1..n -> {1, 2}] : n \in 0..MaxColumnLen }

InitInstances ==
    /\ Idle
    /\ \E k \in {1, 2}, c1 \in InstanceColumns, c2 \in InstanceColumns,
          columns \in {1, 2} :
          call = [fn |-> "args",
                  params_bytes |-> LE(k, 4),
                  public_inputs |-> IF columns = 1 THEN <<c1>> ELSE <<c1, c2>>,
                  r |-> CheckOk(<<>>)]

ComputeInstanceCommitmentsAlone ==
    /\ call.fn = "args"
    /\ call' = [call EXCEPT !.fn = "compute_instance_commitments",
                            !.r = compute_instance_commitments(
                                      call.public_inputs, TRUE, call.params_bytes)]
    /\ UNCHANGED program

NextInstances == ComputeInstanceCommitmentsAlone

SpecInstances == InitInstances /\ [][NextInstances]_vars

----------------------------------------------------------------------------
\* verify_ipa_openings (std build) called on its own, on a proof with up to
\* MaxRounds rounds and on one instance commitment.

MaxRounds == 3

RoundPoints == { <<1, 2>>, <<2, 1>>, <<3, 5>>, <<0, 0>> }

InitIpa ==
    /\ Idle
    /\ \E r \in 0..MaxRounds :
          \E rounds \in [1..r -> RoundPoints] :
              call = [fn |-> "args",
                      proof |-> [ZeroProof(BaseVk(r)) EXCEPT
                                    !.ipa_proof.rounds = rounds],
                      r |-> CheckOk(NoIpa)]

VerifyIpaOpeningsAlone ==
    /\ call.fn = "args"
    /\ call' = [call EXCEPT !.fn = "verify_ipa_openings",
                            !.r = verify_ipa_openings(call.proof, <<7>>, TRUE, TRUE,
                                                      EmbeddedParams)]
    /\ UNCHANGED program

NextIpa == VerifyIpaOpeningsAlone

SpecIpa == InitIpa /\ [][NextIpa]_vars

----------------------------------------------------------------------------
\* VkComponents::to_bytes and VkComponents::from_bytes called one after the
\* other on a key.

VkValues ==
    { [k |-> k, extended_k |-> ek, omega |-> omega,
       num_fixed_columns |-> nf, num_advice_columns |-> na,
       num_instance_columns |-> 1, num_selectors |-> nf,
       fixed_commitments |-> fc, permutation_commitments |-> pc_,
       permutation_columns |-> cols] :
        k \in {0, 1, 300}, ek \in {3, 70000},
        omega \in { <<>>, <<5>>, to_repr(5) },
        nf \in {0, 3, 256}, na \in {0, 3},
        fc \in { <<>>, <<point_to_bytes(3)>>, <<<<>>, <<1, 2>>>> },
        pc_ \in { <<>>, [i \in 1..4 |-> point_to_bytes(2 + i)] },
        cols \in { <<>>, <<<<0, 0>>>>, <<<<0, 0>>, <<1, 0>>, <<2, 0>>, <<0, 1>>>>,
                   <<<<300, 255>>, <<7, 2>>>> } }

InitVk ==
    /\ Idle
    /\ \E v \in VkValues :
          call = [fn |-> "args", vk |-> v, bytes |-> <<>>,
                  r |-> [ok |-> FALSE, value |-> <<>>]]

ToBytes ==
    /\ call.fn = "args"
    /\ call' = [call EXCEPT !.fn = "to_bytes", !.bytes = to_bytes(call.vk)]
    /\ UNCHANGED program

FromBytes ==
    /\ call.fn = "to_bytes"
    /\ call' = [call EXCEPT !.fn = "from_bytes", !.r = from_bytes(call.bytes)]
    /\ UNCHANGED program

NextVk ==
    \/ ToBytes
    \/ FromBytes

SpecVk == InitVk /\ [][NextVk]_vars

----------------------------------------------------------------------------
\* verify_with_vk_and_params called on its own.  halo2's verify_proof is a
\* library function: whether it succeeds on a buffer, and with which error
\* it fails, is left open.

Halo2Outcomes ==
    { CheckOk(0) } \cup
    { CheckErr(e) : e \in {"ConstraintSystemFailure", "InvalidInstances",
                           "Opening", "Transcript"} }

InitHalo2 ==
    /\ Idle
    /\ \E buf \in ReadBufs, inputs \in PublicInputsSet :
          call = [fn |-> "args", proof_bytes |-> buf, public_inputs |-> inputs,
                  halo2 |-> CheckOk(0), r |-> NoResult]

VerifyWithVkAndParams ==
    /\ call.fn = "args"
    /\ \E halo2_result \in Halo2Outcomes :
          call' = [call EXCEPT !.fn = "verify_with_vk_and_params",
                               !.halo2 = halo2_result,
                               !.r = verify_with_vk_and_params(halo2_result)]
    /\ UNCHANGED program

NextHalo2 == VerifyWithVkAndParams

SpecHalo2 == InitHalo2 /\ [][NextHalo2]_vars

----------------------------------------------------------------------------
\* verify_permutation_argument called on its own: the first and the last
\* permutation column of the key are of any kind and index, and the proof
\* is one whose identity holds exactly when the first column's evaluation
\* is a chosen one.

PermutationChallenges == [v |-> 2, beta |-> 3, gamma |-> 5, theta |-> 11, zeta |-> 7]

ColumnChoices == { <<idx, kind>> : idx \in 0..3, kind \in {0, 1, 2, 255} }

\* S_i(zeta) = zeta * omega^i for all columns but the first, S_0(zeta) = 0,
\* Z(zeta) = a + beta*zeta + gamma and Z(omega*zeta) = a + gamma.
ProofForFirstColumn(key, a) ==
    Let(DraftProof(key), LAMBDA d :
        [d EXCEPT !.permutation_evals =
                      [i \in 1..4 |->
                          IF i = 1 THEN 0
                          ELSE FpMul(PermutationChallenges.zeta,
                                     FpPow(get_omega(key).value, i - 1))],
                  !.permutation_product_eval =
                      FpAdd(FpAdd(a, FpMul(PermutationChallenges.beta,
                                           PermutationChallenges.zeta)),
                            PermutationChallenges.gamma),
                  !.permutation_product_next_eval =
                      FpAdd(a, PermutationChallenges.gamma)])

InitPermutation ==
    /\ Idle
    /\ \E first \in ColumnChoices, last \in ColumnChoices, a \in {1000, 700, 300, 0} :
          Let([BaseVk(1) EXCEPT !.permutation_columns[1] = first,
                                !.permutation_columns[4] = last], LAMBDA v :
              call = [fn |-> "args", vk |-> v, a |-> a,
                      proof |-> ProofForFirstColumn(v, a),
                      r |-> CheckOk(0)])

VerifyPermutationArgumentAlone ==
    /\ call.fn = "args"
    /\ call' = [call EXCEPT !.fn = "verify_permutation_argument",
                            !.r = verify_permutation_argument(
                                      call.proof, call.vk, PermutationChallenges)]
    /\ UNCHANGED program

NextPermutation == VerifyPermutationArgumentAlone

SpecPermutation == InitPermutation /\ [][NextPermutation]_vars

----------------------------------------------------------------------------
\* Properties.

StageOrder == <<"load_vk", "parse_proof", "generate_challenges",
                "verify_plonk_constraints", "compute_instance_commitments",
                "verify_ipa_openings">>

Ran(name) == \E i \in 1..Len(stages) : stages[i].name = name
Succeeded(name) == \E i \in 1..Len(stages) : stages[i].name = name /\ stages[i].ok

\* C1: verify_proof_nostd runs its stages in the order load VK, parse_proof,
\* generate_challenges, verify_plonk_constraints,
\* compute_instance_commitments, verify_ipa_openings; the first stage that
\* returns an error ends the call with that error and no later stage runs;
\* Ok(true) is returned only when all six stages have succeeded.
C1_StagesInOrder ==
    entry = "verify_proof_nostd" =>
        /\ Len(stages) <= Len(StageOrder)
        /\ \A i \in 1..Len(stages) : stages[i].name = StageOrder[i]
        /\ \A i \in 1..(Len(stages) - 1) : stages[i].ok
        /\ \A i \in 1..Len(stages) :
              (~stages[i].ok /\ ~stages[i].panic)
                  => pc = "done" /\ result = Err(stages[i].err)
        /\ result = OkTrue
              => /\ Len(stages) = Len(StageOrder)
                 /\ \A i \in 1..Len(stages) : stages[i].ok
        /\ (pc = "done" /\ Len(stages) = Len(StageOrder)
            /\ stages[Len(StageOrder)].ok) => result = OkTrue

\* A call that the constraint check ended with an error: four stages ran.
C1_Witness ==
    /\ entry = "verify_proof_nostd"
    /\ pc = "done"
    /\ Len(stages) = 4
    /\ ~stages[4].ok
    /\ result = Err("Balance check gate constraint failed")

\* b is a with exactly one bit flipped.
IsBitFlip(a, b) ==
    /\ Len(a) = Len(b)
    /\ LET D == {i \in 1..Len(a) : a[i] # b[i]}
       IN  /\ Cardinality(D) = 1
           /\ \E pos \in D, bit \in 0..7 : b = FlipBit(a, pos, bit)

\* C2: tamper sensitivity: when a call has returned Ok(true), the call with
\* the same public inputs and the buffer with one bit flipped does not
\* return Ok(true).
C2_TamperSensitivity ==
    ( /\ entry = "verify_proof_nostd"
      /\ prev.has
      /\ prev.result = OkTrue
      /\ pc = "done"
      /\ public_inputs = prev.public_inputs
      /\ IsBitFlip(prev.proof_bytes, proof_bytes) )
    => result # OkTrue

\* C3: public-input binding: when a call has returned Ok(true), the call
\* with the same buffer and different, non-empty public inputs returns
\* Ok(false).
C3_PublicInputBinding ==
    ( /\ entry = "verify_proof_nostd"
      /\ prev.has
      /\ prev.result = OkTrue
      /\ pc = "done"
      /\ proof_bytes = prev.proof_bytes
      /\ public_inputs # prev.public_inputs
      /\ public_inputs # <<>> )
    => result = OkFalse

\* C4: a buffer that decodes completely but whose evaluations violate the
\* permutation identity or a gate makes the call return Ok(false), not Err.
C4_UnsatisfiedIsOkFalse ==
    ( /\ entry = "verify_proof_nostd"
      /\ pc = "done"
      /\ Succeeded("parse_proof")
      /\ \E i \in 1..Len(stages) :
            /\ stages[i].name = "verify_plonk_constraints"
            /\ stages[i].err \in { "Permutation grand product check failed",
                                   "Commitment gate constraint failed",
                                   "Balance check gate constraint failed",
                                   "Merkle gate constraint failed" } )
    => result = OkFalse

\* The closing equation named in verify_ipa_openings:
\* P' - [v]G_0 + [xi]S = O.
opening_equation(x) ==
    PointAdd(FpSub(x.p_prime, PointMul(1 + (37 % (FpModulus - 1)), x.v)),
             PointMul(x.s_poly, x.xi)) = 0

\* C5: verify_ipa_openings returns Ok only when the final opening equation
\* holds.
C5_IpaEquationChecked ==
    Succeeded("verify_ipa_openings") => opening_equation(ipa)

\* The digests handed out by the squeezes in a log of transcript calls.
Squeezes(ops) == SelectSeq(ops, LAMBDA o : o.op = "squeeze_challenge")

\* C6: every challenge depends on everything absorbed since the transcript
\* was created: two calls whose buffers differ in one bit of an advice
\* commitment, both decoded, differ in each of beta, gamma, theta, zeta, v.
C6_ChallengesBindHistory ==
    ( /\ entry = "verify_proof_nostd"
      /\ prev.has
      /\ Len(Squeezes(prev.ops)) = 5
      /\ Len(Squeezes(transcript.ops)) = 5
      /\ IsBitFlip(prev.proof_bytes, proof_bytes)
      /\ \E i \in 1..(point_size * vk.num_advice_columns) :
            prev.proof_bytes[i] # proof_bytes[i] )
    => \A j \in 1..5 : Squeezes(prev.ops)[j].bytes # Squeezes(transcript.ops)[j].bytes

AbsorbPoint(p) == [op |-> "absorb_point", bytes |-> point_to_bytes(p)]
AbsorbScalar(x) == [op |-> "absorb_scalar", bytes |-> to_repr(x)]
Squeeze == [op |-> "squeeze_challenge", bytes |-> <<>>]

\* A log with the digests left out.
OpsShape(ops) ==
    [i \in 1..Len(ops) |-> IF ops[i].op = "squeeze_challenge" THEN Squeeze ELSE ops[i]]

\* The sequence of transcript operations the protocol fixes for a proof.
ExpectedChallengeOps(p) ==
    [i \in 1..Len(p.advice_commitments) |-> AbsorbPoint(p.advice_commitments[i])]
    \o <<Squeeze, Squeeze>>
    \o <<AbsorbPoint(p.permutation_product_commitment), Squeeze>>
    \o [i \in 1..Len(p.quotient_commitment) |-> AbsorbPoint(p.quotient_commitment[i])]
    \o <<Squeeze>>
    \o [i \in 1..Len(p.advice_evals) |-> AbsorbScalar(p.advice_evals[i])]
    \o [i \in 1..Len(p.fixed_evals) |-> AbsorbScalar(p.fixed_evals[i])]
    \o [i \in 1..Len(p.permutation_evals) |-> AbsorbScalar(p.permutation_evals[i])]
    \o <<AbsorbScalar(p.permutation_product_eval),
         AbsorbScalar(p.permutation_product_next_eval), Squeeze>>

\* C7: generate_challenges performs exactly the protocol's sequence of
\* absorbs and squeezes on its transcript, and no other operation.
C7_ChallengeSequence ==
    Ran("generate_challenges")
        => OpsShape(transcript.ops) = ExpectedChallengeOps(proof)

\* generate_challenges has run on a proof with three advice columns, three
\* fixed and four permutation evaluations.
C7_Witness ==
    /\ Ran("generate_challenges")
    /\ Len(transcript.ops) = 24
    /\ proof.advice_evals = <<1000, 700, 300>>

\* C8: verify_proof_nostd returns the empty-input error for an empty proof
\* buffer and for an empty public-input list, before the VK is loaded or
\* anything is decoded; when both are empty it is the empty-proof error.
\* verify_halo2_proof does the same on its byte arguments.
C8_EmptyInputs ==
    /\ (entry = "verify_proof_nostd" /\ pc # "check_inputs")
        => /\ proof_bytes = <<>>
               => /\ result = Err("Empty proof")
                  /\ pc = "done" /\ stages = <<>> /\ vk = NoVk /\ proof = NoProof
           /\ (proof_bytes # <<>> /\ public_inputs = <<>>)
               => /\ result = Err("Empty public inputs")
                  /\ pc = "done" /\ stages = <<>> /\ vk = NoVk /\ proof = NoProof
    /\ (entry = "verify_halo2_proof" /\ pc = "done")
        => /\ proof_bytes = <<>> => result = Err("Empty proof")
           /\ (proof_bytes # <<>> /\ public_inputs_bytes = <<>>)
               => result = Err("Empty public inputs")

\* Both arguments empty: the call has returned the empty-proof error.
C8_Witness ==
    /\ entry = "verify_proof_nostd"
    /\ pc = "done"
    /\ proof_bytes = <<>>
    /\ public_inputs = <<>>
    /\ result = Err("Empty proof")

\* C9: the Stylus entry point returns the empty-input error for empty
\* public inputs with a non-empty proof, as it does for an empty proof.
C9_StylusEmptyInputs ==
    (entry = "ZeroStylVerifier_verify" /\ pc = "done")
        => /\ proof_bytes = <<>> => result = Err("Empty proof")
           /\ (proof_bytes # <<>> /\ public_inputs_bytes = <<>>)
               => result = Err("Empty public inputs")

\* C10: verify_proof_nostd never panics: no index is out of bounds and the
\* shift 1 << rounds.len() does not overflow.
C10_NoPanic ==
    entry = "verify_proof_nostd" => result.kind # "panic"

\* The number of 32-byte chunks parse_proof reads for a key.
required_chunks(v) ==
    2 * v.num_advice_columns + v.num_fixed_columns + Len(v.permutation_columns)
    + 8 + 2 * v.k

\* What parse_proof reads as chunk j (0-based) of the buffer.
ChunkKind(v, j) ==
    LET points == v.num_advice_columns + 1 + num_quotient_parts
        scalars == v.num_advice_columns + v.num_fixed_columns
                   + Len(v.permutation_columns) + 2
    IN  IF j < points THEN "point"
        ELSE IF j < points + scalars THEN "scalar"
        ELSE IF j = points + scalars THEN "point"
        ELSE IF j = points + scalars + 1 THEN "scalar"
        ELSE "point"

ChunkDecodes(bytes, v, j) ==
    IF ChunkKind(v, j) = "point"
    THEN point_from_bytes(SubSeq(bytes, 32 * j + 1, 32 * j + 32)).some
    ELSE from_repr(SubSeq(bytes, 32 * j + 1, 32 * j + 32)).some

\* Every complete chunk of the buffer that parse_proof would read decodes.
CompleteChunksDecode(bytes, v) ==
    \A j \in 0..(Min(Len(bytes) \div 32, required_chunks(v)) - 1) :
        ChunkDecodes(bytes, v, j)

ParseError == IF Ran("parse_proof") THEN stages[2].err ELSE ""

C12_ExactLength ==
    ( /\ entry = "verify_proof_nostd"
      /\ Ran("parse_proof")
      /\ Len(proof_bytes) # 32 * required_chunks(vk) )
    => /\ ~Succeeded("parse_proof")
       /\ pc = "done" => result.kind = "Err"

\* The bytes left after the cursor, and the 32 bytes at the cursor.
Remaining(t) == Len(t.proof_data) - t.position
NextChunk(t) == SubSeq(t.proof_data, t.position + 1, t.position + 32)

\* C13: read_point and read_scalar return the insufficient-data error
\* exactly when fewer than 32 bytes remain after the cursor; otherwise the
\* invalid-encoding error exactly when the next 32 bytes do not decode;
\* otherwise the decoded value, with the cursor advanced by exactly 32 and
\* exactly that one value, with its tag, absorbed into the hash state.
C13_ReadContract ==
    /\ call.fn = "read_point" =>
         LET b == call.before
             r == call.r
             d == point_from_bytes(NextChunk(b))
         IN  /\ (~r.ok /\ r.err = "Insufficient proof data for point")
                   <=> Remaining(b) < 32
             /\ Remaining(b) >= 32 =>
                   ((~r.ok /\ r.err = "Invalid point encoding") <=> ~d.some)
             /\ (Remaining(b) >= 32 /\ d.some) =>
                   /\ r.ok
                   /\ r.value = d.value
                   /\ r.t.position = b.position + 32
                   /\ r.t.proof_data = b.proof_data
                   /\ r.t.hasher = b.hasher \o <<POINT_PREFIX>> \o point_to_bytes(d.value)
                   /\ r.t.ops = Append(b.ops, AbsorbPoint(d.value))
    /\ call.fn = "read_scalar" =>
         LET b == call.before
             r == call.r
             d == from_repr(NextChunk(b))
         IN  /\ (~r.ok /\ r.err = "Insufficient proof data for scalar")
                   <=> Remaining(b) < 32
             /\ Remaining(b) >= 32 =>
                   ((~r.ok /\ r.err = "Invalid scalar encoding") <=> ~d.some)
             /\ (Remaining(b) >= 32 /\ d.some) =>
                   /\ r.ok
                   /\ r.value = d.value
                   /\ r.t.position = b.position + 32
                   /\ r.t.proof_data = b.proof_data
                   /\ r.t.hasher = b.hasher \o <<SCALAR_PREFIX>> \o to_repr(d.value)
                   /\ r.t.ops = Append(b.ops, AbsorbScalar(d.value))

\* A point was read from the last 32 bytes of a buffer, after another read.
C13_Witness ==
    /\ call.fn = "read_point"
    /\ call.r.ok
    /\ call.before.position = 32
    /\ Remaining(call.before) = 32
    /\ call.t.position = 64

\* The value chunk j (0-based) of the buffer decodes to, as parse_proof
\* reads it.
ChunkValue(bytes, v, j) ==
    IF ChunkKind(v, j) = "point"
    THEN point_from_bytes(SubSeq(bytes, 32 * j + 1, 32 * j + 32)).value
    ELSE from_repr(SubSeq(bytes, 32 * j + 1, 32 * j + 32)).value

\* The values of n chunks from chunk j on.
ChunkValues(bytes, v, j, n) == [i \in 1..n |-> ChunkValue(bytes, v, j + i - 1)]

\* The Proof whose fields are the buffer's chunks in wire order.
WireOrderProof(bytes, v) ==
    LET A == v.num_advice_columns
        F == v.num_fixed_columns
        Pm == Len(v.permutation_columns)
    IN  [advice_commitments |-> ChunkValues(bytes, v, 0, A),
         permutation_product_commitment |-> ChunkValue(bytes, v, A),
         quotient_commitment |-> ChunkValues(bytes, v, A + 1, 3),
         advice_evals |-> ChunkValues(bytes, v, A + 4, A),
         fixed_evals |-> ChunkValues(bytes, v, 2 * A + 4, F),
         permutation_evals |-> ChunkValues(bytes, v, 2 * A + F + 4, Pm),
         permutation_product_eval |-> ChunkValue(bytes, v, 2 * A + F + Pm + 4),
         permutation_product_next_eval |-> ChunkValue(bytes, v, 2 * A + F + Pm + 5),
         ipa_proof |->
           [s_poly_commitment |-> ChunkValue(bytes, v, 2 * A + F + Pm + 6),
            eval_value |-> ChunkValue(bytes, v, 2 * A + F + Pm + 7),
            rounds |-> [i \in 1..v.k |->
                          <<ChunkValue(bytes, v, 2 * A + F + Pm + 8 + 2 * (i - 1)),
                            ChunkValue(bytes, v, 2 * A + F + Pm + 9 + 2 * (i - 1))>>]]]

\* C14: whenever parse_proof succeeds it has consumed the chunks in wire
\* order (advice commitments, permutation product commitment, quotient
\* commitments, advice evals, fixed evals, permutation evals, Z(zeta),
\* Z(omega*zeta), IPA auxiliary commitment, IPA evaluation, IPA rounds as
\* (left, right) pairs), and the Proof has as many advice commitments and
\* advice evals as the key has advice columns, 3 quotient commitments, as
\* many fixed evals as fixed columns, as many permutation evals as
\* permutation columns, and k rounds.
C14_ParsedShape ==
    (entry = "verify_proof_nostd" /\ Succeeded("parse_proof")) =>
        /\ proof = WireOrderProof(proof_bytes, vk)
        /\ parse_proof(proof_bytes, vk).t.position = 32 * required_chunks(vk)
        /\ Len(proof.advice_commitments) = vk.num_advice_columns
        /\ Len(proof.advice_evals) = vk.num_advice_columns
        /\ Len(proof.quotient_commitment) = 3
        /\ Len(proof.fixed_evals) = vk.num_fixed_columns
        /\ Len(proof.permutation_evals) = Len(vk.permutation_columns)
        /\ Len(proof.ipa_proof.rounds) = vk.k

\* A proof with two rounds was parsed.
C14_Witness ==
    /\ entry = "verify_proof_nostd"
    /\ Succeeded("parse_proof")
    /\ vk.k = 2
    /\ Len(proof.ipa_proof.rounds) = 2
    /\ proof.ipa_proof.rounds[1][1] # proof.ipa_proof.rounds[1][2]
    /\ proof.advice_evals # proof.fixed_evals

\* The Lagrange basis polynomial of domain point omega^j, of the domain
\* omega^0 .. omega^(n-1), at x (m counts the factors).
RECURSIVE LagrangeBasis(_, _, _, _, _)
LagrangeBasis(omega, n, j, x, m) ==
    IF m = n THEN 1
    ELSE IF m = j THEN LagrangeBasis(omega, n, j, x, m + 1)
    ELSE FpMul(FpMul(FpSub(x, FpPow(omega, m)),
                     invert(FpSub(FpPow(omega, j), FpPow(omega, m))).value),
               LagrangeBasis(omega, n, j, x, m + 1))

\* The instance column's polynomial, whose values over the domain are the
\* public inputs of the column padded with zeros, at x.
InstanceEval(values, omega, n, x) ==
    SumMod([j \in 1..Len(values) |->
               FpMul(values[j], LagrangeBasis(omega, n, j - 1, x, 0))],
           1, Len(values))

\* The evaluation permutation_columns[i] selects (i is 1-based here).
ColumnEval(i) ==
    IF vk.permutation_columns[i][2] = 0
    THEN proof.advice_evals[vk.permutation_columns[i][1] + 1]
    ELSE InstanceEval(public_inputs[vk.permutation_columns[i][1] + 1],
                      get_omega(vk).value, Pow2(vk.k), challenges.zeta)

RECURSIVE LeftProduct(_)
LeftProduct(i) ==
    IF i = 0 THEN 1
    ELSE FpMul(LeftProduct(i - 1),
               FpAdd(FpAdd(ColumnEval(i),
                           FpMul(FpMul(challenges.beta, challenges.zeta),
                                 FpPow(get_omega(vk).value, i - 1))),
                     challenges.gamma))

RECURSIVE RightProduct(_)
RightProduct(i) ==
    IF i = 0 THEN 1
    ELSE FpMul(RightProduct(i - 1),
               FpAdd(FpAdd(ColumnEval(i),
                           FpMul(challenges.beta, proof.permutation_evals[i])),
                     challenges.gamma))

\* Z(omega*zeta) * prod_i (a_i + beta*zeta*omega^i + gamma)
\*   = Z(zeta) * prod_i (a_i + beta*S_i(zeta) + gamma)
PermutationIdentity ==
    FpMul(proof.permutation_product_next_eval, LeftProduct(4))
        = FpMul(proof.permutation_product_eval, RightProduct(4))

\* verify_plonk_constraints got as far as the permutation argument, and the
\* key and the proof give every term of the identity a meaning (the domain
\* has at most 2^4 points).
PermutationArgumentRan ==
    /\ entry = "verify_proof_nostd"
    /\ Ran("verify_plonk_constraints")
    /\ stages[4].err \notin { "Advice column count mismatch",
                              "Permutation structure mismatch",
                              "Expected 3 advice columns for tx_privacy circuit",
                              "Expected 3 selectors for tx_privacy circuit" }
    /\ vk.k <= 4
    /\ Len(vk.permutation_columns) = 4
    /\ Len(proof.permutation_evals) = 4
    /\ get_omega(vk).ok
    /\ \A i \in 1..4 :
          \/ /\ vk.permutation_columns[i][2] = 0
             /\ vk.permutation_columns[i][1] < Len(proof.advice_evals)
          \/ /\ vk.permutation_columns[i][2] = 1
             /\ vk.permutation_columns[i][1] < Len(public_inputs)
             /\ Len(public_inputs[vk.permutation_columns[i][1] + 1]) <= Pow2(vk.k)

\* C15: verify_permutation_argument returns Ok exactly when
\* Z(omega*zeta) * prod_i (a_i + beta*zeta*omega^i + gamma)
\*   = Z(zeta) * prod_i (a_i + beta*S_i(zeta) + gamma)
\* over the permutation columns i = 0..3, with omega taken from the key and
\* a_i the evaluation of the column permutation_columns[i] selects; on a
\* mismatch it returns the permutation-check-failed error.
C15_PermutationIdentity ==
    PermutationArgumentRan =>
        /\ stages[4].err # "Permutation grand product check failed"
              <=> PermutationIdentity
        /\ ~PermutationIdentity
              => /\ ~stages[4].ok
                 /\ stages[4].err = "Permutation grand product check failed"

\* x = 0 in the field, for an integer x.
IsZeroInFp(x) == x % FpModulus = 0

\* C16: verify_tx_privacy_gates, on 3 advice evals a0, a1, a2 and selector
\* evals s0, s1, s2 = fixed_evals[0..2], returns Ok exactly when
\* s0*(a0+a1-a2) = 0 and s1*(a0-a2-a1) = 0 and s2*(a0+a1-a2) = 0; it accepts
\* (1000, 700, 300) with selectors (0, 1, 0), rejects the same selectors
\* with a2 = 301, and accepts any advice values when all selectors are 0.
C16_GateIdentities ==
    call.fn = "verify_tx_privacy_gates" =>
        LET a == call.proof.advice_evals
            sel == call.proof.fixed_evals
        IN  /\ call.r.ok <=> /\ IsZeroInFp(sel[1] * (a[1] + a[2] - a[3]))
                             /\ IsZeroInFp(sel[2] * (a[1] - a[3] - a[2]))
                             /\ IsZeroInFp(sel[3] * (a[1] + a[2] - a[3]))
            /\ (a = <<1000, 700, 300>> /\ sel = <<0, 1, 0>>) => call.r.ok
            /\ (a = <<1000, 700, 301>> /\ sel = <<0, 1, 0>>) => ~call.r.ok
            /\ sel = <<0, 0, 0>> => call.r.ok
            /\ ~call.r.panic

\* The balance check alone is on and holds for (1000, 700, 300).
C16_Witness ==
    /\ call.fn = "verify_tx_privacy_gates"
    /\ call.proof.advice_evals = <<1000, 700, 300>>
    /\ call.proof.fixed_evals = <<0, 1, 0>>
    /\ call.r.ok

\* C17: compute_instance_commitments (std build) fails with the
\* values-exceed-domain error whenever some public-input column holds more
\* than 2^k values; it never drops the excess values and commits to the
\* first 2^k.
C17_ExcessValuesRejected ==
    ( /\ call.fn = "compute_instance_commitments"
      /\ \E c \in 1..Len(call.public_inputs) :
            Len(call.public_inputs[c]) > Pow2(Params_read(call.params_bytes).value.k) )
    => /\ ~call.r.ok
       /\ call.r.err = "Values exceed params size"

\* Absorb left, absorb right, squeeze, for each round in order.
RoundOps(rounds) ==
    [i \in 1..(3 * Len(rounds)) |->
        IF i % 3 = 1 THEN AbsorbPoint(rounds[(i + 2) \div 3][1])
        ELSE IF i % 3 = 2 THEN AbsorbPoint(rounds[(i + 2) \div 3][2])
        ELSE Squeeze]

\* What verify_ipa_openings absorbs before it squeezes xi, the claimed
\* evaluation left out.
CommitmentOps(instances, p) ==
    [i \in 1..Len(instances) |-> AbsorbPoint(instances[i])]
    \o [i \in 1..Len(p.advice_commitments) |-> AbsorbPoint(p.advice_commitments[i])]
    \o <<AbsorbPoint(p.ipa_proof.s_poly_commitment)>>

\* C18 (amended): verify_ipa_openings performs exactly this sequence on a
\* fresh transcript: absorb every instance commitment, absorb every advice
\* commitment, absorb the auxiliary commitment, absorb the claimed evaluation
\* (a scalar), squeeze xi, squeeze z, then for each of the k rounds in order
\* absorb the left point, absorb the right point and squeeze u_j.
C18_IpaSequence ==
    (entry = "verify_proof_nostd" /\ Ran("verify_ipa_openings")) =>
        OpsShape(ipa.ops) =
            CommitmentOps(instance_commitments, proof)
            \o <<AbsorbScalar(proof.ipa_proof.eval_value), Squeeze, Squeeze>>
            \o RoundOps(proof.ipa_proof.rounds)

\* verify_ipa_openings ran on a proof with two rounds and one instance
\* column.
C18_Witness ==
    /\ entry = "verify_proof_nostd"
    /\ Ran("verify_ipa_openings")
    /\ Len(proof.ipa_proof.rounds) = 2
    /\ Len(instance_commitments) = 1
    /\ Len(ipa.ops) = 14
    /\ proof.ipa_proof.rounds[1][1] # proof.ipa_proof.rounds[1][2]

\* C18 as stated: no scalar is absorbed before xi is squeezed.
C18_AsStated ==
    (entry = "verify_proof_nostd" /\ Ran("verify_ipa_openings")) =>
        OpsShape(ipa.ops) =
            CommitmentOps(instance_commitments, proof)
            \o <<Squeeze, Squeeze>>
            \o RoundOps(proof.ipa_proof.rounds)

\* The inverse of a non-zero u: the x with u * x = 1.
InverseOf(u) == CHOOSE x \in 1..(FpModulus - 1) : (u * x) % FpModulus = 1

\* The product over the challenges j..r-1 (0-based) of u_j if bit j of i is
\* set, else of the inverse of u_j.
RECURSIVE FoldedCoefficient(_, _, _)
FoldedCoefficient(us, i, j) ==
    IF j = Len(us) THEN 1
    ELSE ((IF (i \div (2 ^ j)) % 2 = 1 THEN us[j + 1] ELSE InverseOf(us[j + 1]))
          * FoldedCoefficient(us, i, j + 1)) % FpModulus

C20_VkRoundTrip ==
    call.fn = "from_bytes" =>
        /\ call.r.ok
        /\ call.r.value.k = call.vk.k
        /\ call.r.value.extended_k = call.vk.extended_k
        /\ call.r.value.omega = call.vk.omega
        /\ call.r.value.num_fixed_columns = call.vk.num_fixed_columns
        /\ call.r.value.num_advice_columns = call.vk.num_advice_columns
        /\ call.r.value.num_instance_columns = call.vk.num_instance_columns
        /\ call.r.value.num_selectors = call.vk.num_selectors
        /\ call.r.value.fixed_commitments = call.vk.fixed_commitments
        /\ call.r.value.permutation_commitments = call.vk.permutation_commitments
        /\ call.r.value.permutation_columns = call.vk.permutation_columns
        /\ DOMAIN call.r.value = DOMAIN call.vk
        /\ to_bytes(call.r.value) = call.bytes

\* A key with an instance column among its four permutation columns made the
\* round trip.
C20_Witness ==
    /\ call.fn = "from_bytes"
    /\ call.r.ok
    /\ call.vk.permutation_columns = <<<<0, 0>>, <<1, 0>>, <<2, 0>>, <<0, 1>>>>
    /\ call.vk.omega = to_repr(5)
    /\ Len(call.bytes) > 100

\* C22: when the key material is unavailable (embedded VK_BYTES or
\* PARAMS_BYTES empty; no loadable VerifyingKey), verify_proof_nostd and
\* verify_halo2_proof return Err for every non-empty proof and non-empty
\* public inputs, never Ok(true) or Ok(false), and before any proof byte or
\* public-input byte is decoded.
C22_KeyNotConfigured ==
    /\ ( /\ entry = "verify_proof_nostd"
         /\ VK_BYTES = <<>> \/ PARAMS_BYTES = <<>>
         /\ proof_bytes # <<>>
         /\ public_inputs # <<>>
         /\ pc \notin {"check_inputs", "load_vk"} )
       => /\ pc = "done"
          /\ result = Err("VK or params not embedded")
          /\ vk = NoVk
          /\ proof = NoProof
          /\ transcript = NoTranscript
          /\ Len(stages) = 1
    /\ ( /\ entry = "verify_halo2_proof"
         /\ proof_bytes # <<>>
         /\ public_inputs_bytes # <<>>
         /\ pc = "done" )
       => result = Err("Verifying key not embedded")

\* A build with a key and without parameters has answered a call.
C22_Witness ==
    /\ entry = "verify_proof_nostd"
    /\ VK_BYTES # <<>>
    /\ PARAMS_BYTES = <<>>
    /\ Len(proof_bytes) > 32
    /\ public_inputs # <<>>
    /\ pc = "done"
    /\ result = Err("VK or params not embedded")

\* What a call of verify_proof_nostd that has returned leaves behind: its
\* result is that of the function on its own arguments and the build,
\* whatever call came before; a call with the arguments of the one before it
\* has its result; the key in use is the embedded one; the challenge
\* transcript and the IPA transcript hold what a transcript created for them
\* alone holds, and the cursor of the challenge transcript never moved.
CallIsFunctionOfArguments ==
    entry = "verify_proof_nostd" =>
        /\ pc = "done" =>
              result = verify_proof_nostd(proof_bytes, public_inputs, VK_BYTES,
                                          PARAMS_BYTES, feature_std, overflow_checks)
        /\ ( /\ pc = "done"
             /\ prev.has
             /\ proof_bytes = prev.proof_bytes
             /\ public_inputs = prev.public_inputs )
           => /\ result = prev.result
              /\ stages # <<>> => transcript.ops = prev.ops
        /\ Ran("parse_proof") => vk = from_bytes(VK_BYTES).value
        /\ Ran("verify_plonk_constraints") =>
              /\ transcript.position = 0
              /\ Len(transcript.ops) =
                    2 * Len(proof.advice_commitments) + Len(proof.fixed_evals)
                    + Len(proof.permutation_evals) + 11
              /\ transcript.ops[1].op =
                    IF proof.advice_commitments = <<>>
                    THEN "squeeze_challenge" ELSE "absorb_point"
        /\ Ran("verify_ipa_openings") =>
              Len(ipa.ops) = Len(instance_commitments) + Len(proof.advice_commitments)
                             + 4 + 3 * Len(proof.ipa_proof.rounds)

ColumnCommitment(column, k) ==
    SumMod([i \in 1..Len(column) |-> PointMul(get_g([k |-> k])[i], column[i])],
           1, Len(column))

\* C24: compute_instance_commitments (std build) returns exactly one
\* commitment per public-input column, in column order, each the sum over i
\* of value[i] * G[i] of the column right-padded with zero to 2^k entries;
\* appending zeros to a column, up to 2^k values, leaves its commitment as
\* it is.
C24_OneCommitmentPerColumn ==
    call.fn = "compute_instance_commitments" =>
        LET k == Params_read(call.params_bytes).value.k
        IN  /\ call.r.ok
            /\ Len(call.r.value) = Len(call.public_inputs)
            /\ \A c \in 1..Len(call.public_inputs) :
                  Len(call.public_inputs[c]) <= Pow2(k) =>
                     /\ call.r.value[c] = ColumnCommitment(call.public_inputs[c], k)
                     /\ \A m \in 0..(Pow2(k) - Len(call.public_inputs[c])) :
                           compute_instance_commitments(
                               <<call.public_inputs[c] \o Zeros(m)>>, TRUE,
                               call.params_bytes).value = <<call.r.value[c]>>

\* Two columns under k = 2, one of two values and one of four, with
\* different commitments.
C24_Witness ==
    /\ call.fn = "compute_instance_commitments"
    /\ call.params_bytes = LE(2, 4)
    /\ Len(call.public_inputs) = 2
    /\ Len(call.public_inputs[1]) = 2
    /\ Len(call.public_inputs[2]) = 4
    /\ call.r.ok
    /\ call.r.value[1] # call.r.value[2]

\* C25: two consecutive squeeze_challenge calls on the same Transcript with
\* nothing absorbed between them return different challenges, at every
\* point of the transcript's life.
C25_ConsecutiveSqueezesDiffer ==
    ( /\ call.fn = "squeeze_challenge"
      /\ call.before.ops # <<>>
      /\ call.before.ops[Len(call.before.ops)].op = "squeeze_challenge" )
    => call.r.value # from_uniform_bytes(call.before.ops[Len(call.before.ops)].bytes)

\* The structure of the tx_privacy key: three advice columns, three
\* selectors, four permutation columns each with its commitment, at least
\* three fixed columns.
TxPrivacyStructure(v) ==
    /\ v.num_advice_columns = 3
    /\ v.num_selectors = 3
    /\ Len(v.permutation_columns) = 4
    /\ Len(v.permutation_commitments) = 4
    /\ v.num_fixed_columns >= 3

\* C26: verify_proof_nostd can return Ok(true) only for a VK with
\* num_advice_columns = 3, num_selectors = 3, exactly 4 permutation columns
\* and 4 permutation commitments, and num_fixed_columns >= 3; for every
\* other VK, the one the extraction tool emits (num_fixed_columns = 2 with
\* num_selectors = 3) included, every proof is rejected with Err.
C26_OnlyTxPrivacyKeyAccepts ==
    (entry = "verify_proof_nostd" /\ pc = "done") =>
        LET v == from_bytes(VK_BYTES)
        IN  /\ result = OkTrue => (v.ok /\ TxPrivacyStructure(v.value))
            /\ (v.ok /\ ~TxPrivacyStructure(v.value)) => result.kind = "Err"
            /\ VK_BYTES = to_bytes(ExtractedVk(1)) => result.kind = "Err"

\* Under the extracted key, a proof whose checks up to the gates pass is
\* rejected for its count of fixed evaluations.
C26_Witness ==
    /\ entry = "verify_proof_nostd"
    /\ pc = "done"
    /\ VK_BYTES = to_bytes(ExtractedVk(1))
    /\ PARAMS_BYTES # <<>>
    /\ proof_bytes = encode_proof(SatisfyingProof(ExtractedVk(1)))
    /\ result = Err("Not enough fixed evaluations for selectors")

\* C27: verify_with_vk_and_params never returns Err: every proof buffer
\* that fails halo2 verification (wrong public inputs, corrupted, truncated
\* or undecodable bytes alike) yields Ok(false), and Ok(true) is returned
\* only when halo2's verify_proof succeeds.
C27_NeverErr ==
    call.fn = "verify_with_vk_and_params" =>
        /\ call.r.kind = "Ok"
        /\ ~call.halo2.ok => call.r = OkFalse
        /\ call.r = OkTrue => call.halo2.ok

\* halo2 could not read the proof from a buffer of 31 bytes.
C27_Witness ==
    /\ call.fn = "verify_with_vk_and_params"
    /\ Len(call.proof_bytes) = 31
    /\ ~call.halo2.ok
    /\ call.halo2.err = "Transcript"
    /\ call.r = OkFalse

\* Column i (1-based) of the call's key cannot be evaluated: an advice
\* column whose index is out of range, or a column that is neither advice
\* nor instance.
ColumnRefused(i) ==
    \/ /\ call.vk.permutation_columns[i][2] = 0
       /\ call.vk.permutation_columns[i][1] >= Len(call.proof.advice_evals)
    \/ call.vk.permutation_columns[i][2] \notin {0, 1}

\* a_i by the kind of column i: the advice evaluation at the column's index,
\* or zero for an instance column.
SelectedEval(i) ==
    IF call.vk.permutation_columns[i][2] = 0
    THEN call.proof.advice_evals[call.vk.permutation_columns[i][1] + 1]
    ELSE 0

RECURSIVE SelectedLeft(_)
SelectedLeft(i) ==
    IF i = 0 THEN 1
    ELSE FpMul(SelectedLeft(i - 1),
               FpAdd(FpAdd(SelectedEval(i),
                           FpMul(FpMul(PermutationChallenges.beta,
                                       PermutationChallenges.zeta),
                                 FpPow(get_omega(call.vk).value, i - 1))),
                     PermutationChallenges.gamma))

RECURSIVE SelectedRight(_)
SelectedRight(i) ==
    IF i = 0 THEN 1
    ELSE FpMul(SelectedRight(i - 1),
               FpAdd(FpAdd(SelectedEval(i),
                           FpMul(PermutationChallenges.beta,
                                 call.proof.permutation_evals[i])),
                     PermutationChallenges.gamma))

\* C28: in verify_permutation_argument the kind in permutation_columns[i]
\* selects a_i: Advice uses advice_evals[col_index] (an error if the index
\* is out of range), Instance uses zero in the left and the right product,
\* and Fixed or any other kind makes the check return an error instead of
\* being evaluated.
C28_ColumnKindSelects ==
    call.fn = "verify_permutation_argument" =>
        IF \E i \in 1..4 : ColumnRefused(i)
        THEN LET first == CHOOSE i \in 1..4 :
                              ColumnRefused(i) /\ \A j \in 1..(i - 1) : ~ColumnRefused(j)
             IN  /\ ~call.r.ok
                 /\ ~call.r.panic
                 /\ call.r.err =
                       IF call.vk.permutation_columns[first][2] = 0
                       THEN "Advice evaluation index out of bounds"
                       ELSE "Invalid permutation column type"
        ELSE /\ call.r.ok
                   <=> FpMul(call.proof.permutation_product_next_eval, SelectedLeft(4))
                       = FpMul(call.proof.permutation_product_eval, SelectedRight(4))
             /\ ~call.r.ok =>
                   (~call.r.panic /\ call.r.err = "Permutation grand product check failed")

\* The first column is advice column 2, the last an instance column, and
\* the identity holds with a_0 = advice_evals[2] and a_3 = 0.
C28_Witness ==
    /\ call.fn = "verify_permutation_argument"
    /\ call.vk.permutation_columns[1] = <<2, 0>>
    /\ call.vk.permutation_columns[4] = <<3, 1>>
    /\ call.a = call.proof.advice_evals[3]
    /\ call.r.ok

\* C29: after any sequence of read_point, read_scalar, absorb_point,
\* absorb_scalar and squeeze_challenge calls, position is a multiple of 32
\* and 0 <= position <= proof_data.len(); only a read changes position, and
\* proof_data is never changed.
C29_CursorInvariant ==
    call.fn \in {"Transcript::new", "read_point", "read_scalar", "absorb_point",
                 "absorb_scalar", "squeeze_challenge"} =>
        /\ call.t.position % 32 = 0
        /\ call.t.position >= 0
        /\ call.t.position <= Len(call.t.proof_data)
        /\ call.fn # "Transcript::new" =>
              /\ call.t.proof_data = call.before.proof_data
              /\ call.fn \notin {"read_point", "read_scalar"} =>
                    call.t.position = call.before.position

\* A squeeze after two reads that moved the cursor to the end of a buffer of
\* 64 bytes.
C29_Witness ==
    /\ call.fn = "squeeze_challenge"
    /\ call.n = 3
    /\ call.before.position = 64
    /\ call.t.position = 64
    /\ Len(call.t.proof_data) = 64

\* C30: a failed read_point or read_scalar leaves the Transcript unchanged:
\* after the insufficient-data error or the invalid-encoding error, the
\* cursor position and the hash state are what they were before the call.
C30_FailedReadLeavesTranscript ==
    (call.fn \in {"read_point", "read_scalar"} /\ ~call.r.ok) =>
        /\ call.t.position = call.before.position
        /\ call.t.hasher = call.before.hasher

====
